---- MODULE Spec2Model ----
(***************************************************************************)
(* Retrieval-and-grounding pipeline of the chat route                      *)
(* (backend/app/api/routes/chat.py): entity boost, threshold selection,    *)
(* per-document grouping, citation numbering, and the stream_chat handler  *)
(* with its concurrent retrieval task.                                     *)
(*                                                                         *)
(* Text is modelled as sequences of one-character strings.  Scores are     *)
(* integers in units of 0.0001 (cosine 0.33 is 3300).                      *)
(***************************************************************************)
EXTENDS Integers, Sequences, FiniteSets, TLC

VARIABLES
    \* ---- stream_chat handler (one chat turn) ----
    pc,              \* position of the request handler / response generator
    http_error,      \* status of the HTTPException raised, 0 when none
    provider_name,   \* request.provider
    providers,       \* ProviderRegistry._providers (registered names)
    instances,       \* ProviderRegistry._instances (cached provider names)
    use_kb,          \* intent_result.use_knowledge_base
    title_updated,   \* title_updated flag of the turn
    research_mode,   \* request.research_mode
    search_query,    \* query handed to the index search
    query_terms,     \* _extract_query_terms(search_query), set once the search returned
    search_doc_ids,  \* document filter: "none", "explicit" or "entity"
    rag_task,        \* state of the asyncio retrieval task
    search_issued,   \* the task's coroutine has called the external index
    rag_awaited,     \* the handler reached `await rag_task`
    search_results,  \* list returned by the index
    doc_groups,      \* doc_groups dict, in insertion order
    sources,         \* list of DocumentSource
    context,         \* context handed to the completion model
    attachment_context, \* whether the discussion contributes attachment text
    events,          \* SSE events emitted so far
    llm_invoked,     \* provider.stream_completion was started
    messages,        \* roles of the messages persisted for the discussion in this turn
    message,         \* request.message
    history,         \* roles of the messages stored before this turn
    mistral_api_key, \* settings.mistral_api_key is configured
    request_document_ids, \* request.document_ids
    rewrite_invocations,  \* calls of _rewrite_search_query in this turn
    rewrite_calls,   \* calls of the external rewrite model in this turn
    primary_entity,  \* person_names[0] when the entity filter was applied
    search_args,     \* arguments of search_documents given to create_task
    has_attachments, \* the discussion has attachments
    extract_calls,   \* calls of _extract_person_names in this turn
    \* ---- _compute_entity_boost applied to free inputs ----
    boost_in,
    boost_out,
    \* ---- a helper function applied to free inputs ----
    call_in,         \* its arguments
    call_out         \* its result

vars == <<pc, http_error, provider_name, providers, instances, use_kb,
          title_updated, research_mode, search_query, query_terms, search_doc_ids,
          rag_task, search_issued, rag_awaited, search_results, doc_groups,
          sources, context, attachment_context, events, llm_invoked,
          messages, message, history, mistral_api_key, request_document_ids,
          rewrite_invocations, rewrite_calls, primary_entity, search_args,
          has_attachments, extract_calls,
          boost_in, boost_out, call_in, call_out>>

turn_vars == <<pc, http_error, provider_name, providers, instances, use_kb,
               title_updated, research_mode, search_query, query_terms, search_doc_ids,
               rag_task, search_issued, rag_awaited, search_results,
               doc_groups, sources, context, attachment_context, events,
               llm_invoked, messages, message, history, mistral_api_key,
               request_document_ids, rewrite_invocations, rewrite_calls,
               primary_entity, search_args, has_attachments, extract_calls>>

request_vars == <<message, history, mistral_api_key, request_document_ids,
                  rewrite_invocations, rewrite_calls, primary_entity, search_args,
                  has_attachments, extract_calls>>

boost_vars == <<boost_in, boost_out>>

call_vars == <<call_in, call_out>>

-----------------------------------------------------------------------------
(* Text helpers: Python str operations used by the route. *)

UpperLetters == <<"A", "B", "C", "D", "E", "F", "G", "H", "I", "J", "K", "L", "M",
                  "N", "O", "P", "Q", "R", "S", "T", "U", "V", "W", "X", "Y", "Z">>

LowerLetters == <<"a", "b", "c", "d", "e", "f", "g", "h", "i", "j", "k", "l", "m",
                  "n", "o", "p", "q", "r", "s", "t", "u", "v", "w", "x", "y", "z">>

Digits == {"0", "1", "2", "3", "4", "5", "6", "7", "8", "9"}

LowerSet == {LowerLetters[i] : i \in 1..26}
UpperSet == {UpperLetters[i] : i \in 1..26}

IsLowerLetter(c) == c \in LowerSet

\* upper-case letter -> lower-case letter
LowerMap == [c \in UpperSet |-> LowerLetters[CHOOSE i \in 1..26 : UpperLetters[i] = c]]

\* str.lower() on one character
LowerChar(c) == IF c \in UpperSet THEN LowerMap[c] ELSE c

\* str.lower()
Lower(s) == [i \in 1..Len(s) |-> LowerChar(s[i])]

\* `t in s` on strings
IsSubstring(t, s) ==
    \E i \in 0..(Len(s) - Len(t)) : SubSeq(s, i + 1, i + Len(t)) = t

\* re.findall(r'[a-z]+', s): the maximal runs of lower-case letters
RECURSIVE FindLowerRuns(_, _, _)
FindLowerRuns(s, i, cur) ==
    IF i > Len(s)
    THEN IF cur = <<>> THEN <<>> ELSE <<cur>>
    ELSE IF IsLowerLetter(s[i])
         THEN FindLowerRuns(s, i + 1, Append(cur, s[i]))
         ELSE IF cur = <<>>
              THEN FindLowerRuns(s, i + 1, <<>>)
              ELSE <<cur>> \o FindLowerRuns(s, i + 1, <<>>)

stop_words ==
    { <<"t", "h", "e">>, <<"a", "n", "d">>, <<"f", "o", "r">>,
      <<"a", "r", "e">>, <<"b", "u", "t">>, <<"n", "o", "t">>,
      <<"y", "o", "u">>, <<"a", "l", "l">>, <<"c", "a", "n">>,
      <<"h", "a", "d">>, <<"h", "e", "r">>, <<"w", "a", "s">>,
      <<"o", "n", "e">>, <<"o", "u", "r">>, <<"o", "u", "t">>,
      <<"h", "a", "s">>, <<"h", "i", "s">>, <<"h", "o", "w">>,
      <<"i", "t", "s">>, <<"m", "a", "y">>, <<"n", "e", "w">>,
      <<"n", "o", "w">>, <<"o", "l", "d">>, <<"s", "e", "e">>,
      <<"w", "a", "y">>, <<"w", "h", "o">>, <<"d", "i", "d">>,
      <<"g", "e", "t">>, <<"l", "e", "t">>, <<"s", "a", "y">>,
      <<"s", "h", "e">>, <<"t", "o", "o">>, <<"u", "s", "e">>,
      <<"w", "h", "a", "t">>, <<"w", "h", "e", "n">>, <<"w", "h", "e", "r", "e">>,
      <<"w", "h", "i", "c", "h">>, <<"w", "h", "i", "l", "e">>, <<"w", "i", "t", "h">>,
      <<"t", "h", "i", "s">>, <<"t", "h", "a", "t">>, <<"f", "r", "o", "m">>,
      <<"a", "b", "o", "u", "t">>, <<"s", "o", "m", "e">>, <<"t", "h", "e", "m">>,
      <<"t", "h", "e", "n">>, <<"t", "h", "a", "n">>, <<"i", "n", "t", "o">>,
      <<"o", "v", "e", "r">>, <<"s", "u", "c", "h">>, <<"l", "i", "s", "t">>,
      <<"g", "i", "v", "e">>, <<"t", "e", "l", "l">>, <<"s", "h", "o", "w">>,
      <<"f", "i", "n", "d">>, <<"d", "o", "e", "s">>, <<"o", "t", "h", "e", "r">>,
      <<"m", "o", "r", "e">>, <<"a", "l", "s", "o">> }

\* the comprehension filter of _extract_query_terms
RECURSIVE KeepTerms(_)
KeepTerms(words) ==
    IF words = <<>> THEN <<>>
    ELSE LET w == Head(words)
         IN  IF Len(w) >= 3 /\ w \notin stop_words
             THEN <<w>> \o KeepTerms(Tail(words))
             ELSE KeepTerms(Tail(words))

\* _extract_query_terms
extract_query_terms(query) == KeepTerms(FindLowerRuns(Lower(query), 1, <<>>))

-----------------------------------------------------------------------------
(* Entity boost *)

BoostAll == 3000
BoostHalf == 1500
BoostWeak == 500

\* sum(1 for t in query_terms if t in content_lower)
RECURSIVE CountMatches(_, _)
CountMatches(content_lower, terms) ==
    IF terms = <<>> THEN 0
    ELSE (IF IsSubstring(Head(terms), content_lower) THEN 1 ELSE 0)
         + CountMatches(content_lower, Tail(terms))

\* faulty variant: exactly half of the terms falls into the lowest tier
BoostTierStrictHalf(matches, total) ==
    IF matches >= total THEN BoostAll
    ELSE IF 2 * matches > total THEN BoostHalf
    ELSE BoostWeak

\* the tier chosen from `ratio = matches / len(query_terms)`
BoostTier(matches, total) ==
    IF matches >= total THEN BoostAll
    ELSE IF 2 * matches >= total THEN BoostHalf
    ELSE BoostWeak

\* _compute_entity_boost
compute_entity_boost(content_lower, terms) ==
    IF terms = <<>> THEN 0
    ELSE LET matches == CountMatches(content_lower, terms)
         IN  IF matches = 0 THEN 0
             ELSE BoostTier(matches, Len(terms))

-----------------------------------------------------------------------------
(* Research modes *)

ResearchModes == {"quick", "enhanced", "deep"}

QuickTopK == 7
EnhancedTopK == 12
DeepTopK == 16
QuickMinScore == 4000
EnhancedMinScore == 3000
DeepMinScore == 2500

\* RESEARCH_MODE_DEFINITIONS[mode].top_k
top_k_of(mode) ==
    CASE mode = "quick" -> QuickTopK
      [] mode = "enhanced" -> EnhancedTopK
      [] mode = "deep" -> DeepTopK

\* RESEARCH_MODE_DEFINITIONS[mode].min_score
min_score_of(mode) ==
    CASE mode = "quick" -> QuickMinScore
      [] mode = "enhanced" -> EnhancedMinScore
      [] mode = "deep" -> DeepMinScore

-----------------------------------------------------------------------------
(* Re-ranking, grouping and citation numbering: the body of the `try` in   *)
(* stream_chat that runs once the index search has returned.               *)
(* A search result is [id, score, has_meta, document_id, filename,         *)
(* content]; document_id = NoDocumentId and filename = NoFilename stand    *)
(* for metadata that lacks the key.                                        *)

NoDocumentId == 0
NoFilename == "(absent)"
PreviewChars == 150

\* metadata.get("document_id", result["id"])
doc_id_of(result) ==
    IF result.document_id = NoDocumentId THEN result.id ELSE result.document_id

\* metadata.get("filename", "Unknown")
filename_of(result) ==
    IF result.filename = NoFilename THEN "Unknown" ELSE result.filename

\* entity_boost = _compute_entity_boost(content_lower, query_terms)
entity_boost_of(result, terms) ==
    compute_entity_boost(Lower(result.content), terms)

\* effective_score = score + entity_boost
add_boost(score, entity_boost) == score + entity_boost

\* effective score of one search result
effective_score_of(result, terms) ==
    add_boost(result.score, entity_boost_of(result, terms))

\* the if / elif / else that selects `threshold`
threshold_of(filtered, entity_boost, min_score) ==
    IF filtered THEN 0
    ELSE IF entity_boost > 0 THEN 0
    ELSE min_score

\* faulty variant: a score equal to the threshold is admitted
passes_threshold_inclusive(effective_score, threshold) == effective_score >= threshold

\* `if effective_score > threshold`
passes_threshold(effective_score, threshold) == effective_score > threshold

\* content[:150] + "..." if len(content) > 150 else content
preview_of(content) ==
    IF Len(content) > PreviewChars
    THEN SubSeq(content, 1, PreviewChars) \o <<".", ".", ".">>
    ELSE content

GroupIndex(groups, doc_id) ==
    IF \E i \in 1..Len(groups) : groups[i].doc_id = doc_id
    THEN CHOOSE i \in 1..Len(groups) : groups[i].doc_id = doc_id
    ELSE 0

\* faulty variant: the lower-scoring chunk replaces the best one
replaces_best_inverted(effective_score, best_score) == effective_score < best_score

\* `if effective_score > group["best_score"]`
replaces_best(effective_score, best_score) == effective_score > best_score

\* the group entry created by `if doc_id not in doc_groups:`
new_group(result, effective_score) ==
    [doc_id |-> doc_id_of(result),
     filename |-> filename_of(result),
     chunks |-> <<>>,
     best_score |-> effective_score,
     best_chunk_id |-> result.id,
     best_preview |-> preview_of(result.content)]

\* group["chunks"].append(content), then the max-score replacement
update_group(group, result, effective_score) ==
    IF replaces_best(effective_score, group.best_score)
    THEN [group EXCEPT !.chunks = Append(@, result.content),
                       !.best_score = effective_score,
                       !.best_chunk_id = result.id,
                       !.best_preview = preview_of(result.content)]
    ELSE [group EXCEPT !.chunks = Append(@, result.content)]

\* one retained result folded into doc_groups
fold_result(groups, result, effective_score) ==
    IF GroupIndex(groups, doc_id_of(result)) = 0
    THEN Append(groups, update_group(new_group(result, effective_score),
                                     result, effective_score))
    ELSE [groups EXCEPT ![GroupIndex(groups, doc_id_of(result))] =
              update_group(@, result, effective_score)]

\* `if not metadata: continue`
has_metadata(result) == result.has_meta

\* `for result in search_results:` building doc_groups
RECURSIVE fold_results(_, _, _, _, _)
fold_results(groups, results, terms, min_score, filtered) ==
    IF results = <<>> THEN groups
    ELSE LET result == Head(results)
             entity_boost == entity_boost_of(result, terms)
             eff == add_boost(result.score, entity_boost)
             threshold == threshold_of(filtered, entity_boost, min_score)
             next == IF has_metadata(result) /\ passes_threshold(eff, threshold)
                     THEN fold_result(groups, result, eff)
                     ELSE groups
         IN  fold_results(next, Tail(results), terms, min_score, filtered)

\* faulty variant: ascending order
sorts_before_ascending(g, h) == g.best_score < h.best_score

\* sort key order of sorted(..., reverse=True): g goes before h
sorts_before(g, h) == g.best_score > h.best_score

\* stable insertion of g into a list already sorted by best_score descending
RECURSIVE InsertSorted(_, _)
InsertSorted(sorted, g) ==
    IF sorted = <<>> THEN <<g>>
    ELSE IF sorts_before(g, Head(sorted))
         THEN <<g>> \o sorted
         ELSE <<Head(sorted)>> \o InsertSorted(Tail(sorted), g)

\* sorted(doc_groups.items(), key=best_score, reverse=True)  (stable)
RECURSIVE SortedDesc(_, _)
SortedDesc(groups, acc) ==
    IF groups = <<>> THEN acc
    ELSE SortedDesc(Tail(groups), InsertSorted(acc, Head(groups)))

\* seq[:n]
Take(seq, n) == SubSeq(seq, 1, IF Len(seq) < n THEN Len(seq) ELSE n)

\* sorted(...)[:research_config.top_k]
sorted_groups_of(groups, top_k) == Take(SortedDesc(groups, <<>>), top_k)

-----------------------------------------------------------------------------
(* Context rendering *)

WhitespaceChars == {" ", "\n", "\t", "\r"}

\* the characters of s at the positions where mask is TRUE, in order
\* (halving keeps the evaluation depth logarithmic in the length)
RECURSIVE KeepMasked(_, _, _, _)
KeepMasked(s, mask, lo, hi) ==
    IF lo > hi THEN <<>>
    ELSE IF lo = hi THEN (IF mask[lo] THEN <<s[lo]>> ELSE <<>>)
    ELSE LET mid == (lo + hi) \div 2
         IN  KeepMasked(s, mask, lo, mid) \o KeepMasked(s, mask, mid + 1, hi)

\* nearest position before k that holds no digit (0 when there is none)
NonDigitBefore(s, k) ==
    IF \E i \in 1..(k - 1) : s[i] \notin Digits
    THEN CHOOSE i \in 1..(k - 1) :
            s[i] \notin Digits /\ \A m \in (i + 1)..(k - 1) : s[m] \in Digits
    ELSE 0

\* nearest position after k that holds no digit (Len(s) + 1 when there is none)
NonDigitAfter(s, k) ==
    IF \E j \in (k + 1)..Len(s) : s[j] \notin Digits
    THEN CHOOSE j \in (k + 1)..Len(s) :
            s[j] \notin Digits /\ \A m \in (k + 1)..(j - 1) : s[m] \in Digits
    ELSE Len(s) + 1

\* position k lies inside a match of _CITATION_RE = \[\d+\]
InCitation(s, k) ==
    LET i == IF s[k] = "[" THEN k ELSE NonDigitBefore(s, k)
        j == IF s[k] = "]" THEN k ELSE NonDigitAfter(s, k)
    IN  /\ s[k] \in Digits \cup {"[", "]"}
        /\ i >= 1 /\ j <= Len(s)
        /\ s[i] = "[" /\ s[j] = "]"
        /\ j > i + 1

\* _CITATION_RE.sub('', s)
citation_re_sub(s) ==
    KeepMasked(s, [k \in 1..Len(s) |-> ~InCitation(s, k)], 1, Len(s))

\* re.sub(r'  +', ' ', s): of a run of two or more spaces only the first stays
collapse_spaces(s) ==
    KeepMasked(s, [k \in 1..Len(s) |-> ~(s[k] = " " /\ k > 1 /\ s[k - 1] = " ")],
               1, Len(s))

\* str.strip()
strip(s) ==
    IF \A k \in 1..Len(s) : s[k] \in WhitespaceChars THEN <<>>
    ELSE LET first == CHOOSE i \in 1..Len(s) :
                         s[i] \notin WhitespaceChars
                         /\ \A m \in 1..(i - 1) : s[m] \in WhitespaceChars
             back == CHOOSE k \in 1..Len(s) :
                         s[Len(s) + 1 - k] \notin WhitespaceChars
                         /\ \A m \in 1..(k - 1) : s[Len(s) + 1 - m] \in WhitespaceChars
             last == Len(s) + 1 - back
         IN  SubSeq(s, first, last)

\* "\n\n".join(chunks)
RECURSIVE join_chunks(_)
join_chunks(chunks) ==
    IF chunks = <<>> THEN <<>>
    ELSE IF Len(chunks) = 1 THEN Head(chunks)
    ELSE Head(chunks) \o <<"\n", "\n">> \o join_chunks(Tail(chunks))

\* combined_content of one group, after citation stripping and space collapsing
combined_content_of(group) ==
    strip(collapse_spaces(citation_re_sub(join_chunks(group.chunks))))

\* round(best_score, 3) on scores in units of 0.0001.  A last digit of 5 is
\* rounded to the even neighbour; for a binary float the direction of such a
\* tie depends on the representation, so the inputs avoid ties.
round3(x) ==
    LET r == x % 10
        base == x - r
    IN  IF r < 5 THEN base
        ELSE IF r > 5 THEN base + 10
        ELSE IF (base \div 10) % 2 = 0 THEN base ELSE base + 10

\* faulty variant: the counter is not advanced
next_citation_number_stuck(n) == n

\* citation_number += 1
next_citation_number(n) == n + 1

\* DocumentSource(...) for one group
source_of(group, citation_number) ==
    [id |-> group.doc_id,
     filename |-> group.filename,
     score |-> round3(group.best_score),
     chunk_preview |-> group.best_preview,
     citation_number |-> citation_number,
     chunk_id |-> group.best_chunk_id]

\* faulty variant: only the first chunk of the group is rendered
context_part_of_first_chunk(group, citation_number) ==
    [citation_number |-> citation_number,
     filename |-> group.filename,
     content |-> combined_content_of([group EXCEPT !.chunks = <<Head(@)>>])]

\* f"[Source {citation_number} - {filename}]:\n{combined_content}"
context_part_of(group, citation_number) ==
    [citation_number |-> citation_number,
     filename |-> group.filename,
     content |-> combined_content_of(group)]

\* `for doc_id, group in sorted_groups:` appending to sources
RECURSIVE build_sources(_, _)
build_sources(groups, citation_number) ==
    IF groups = <<>> THEN <<>>
    ELSE <<source_of(Head(groups), citation_number)>>
         \o build_sources(Tail(groups), next_citation_number(citation_number))

\* `for doc_id, group in sorted_groups:` appending to context_parts
RECURSIVE build_context_parts(_, _)
build_context_parts(groups, citation_number) ==
    IF groups = <<>> THEN <<>>
    ELSE <<context_part_of(Head(groups), citation_number)>>
         \o build_context_parts(Tail(groups), next_citation_number(citation_number))

\* context: kb is "none" (None), "advisory" (the fixed no-sources block) or
\* "sources" (context_parts joined); attachment tells whether attachment text
\* was prepended
NoContext == [kb |-> "none", parts |-> <<>>, attachment |-> FALSE]

\* faulty variant: nothing is said when no group survives
kb_context_without_advisory(context_parts) ==
    IF context_parts # <<>>
    THEN [kb |-> "sources", parts |-> context_parts, attachment |-> FALSE]
    ELSE [kb |-> "none", parts |-> <<>>, attachment |-> FALSE]

\* `if context_parts: ... else: ...`
kb_context_of(context_parts) ==
    IF context_parts # <<>>
    THEN [kb |-> "sources", parts |-> context_parts, attachment |-> FALSE]
    ELSE [kb |-> "advisory", parts |-> <<>>, attachment |-> FALSE]

-----------------------------------------------------------------------------
(* Inputs of the model *)

MaxResults == 2      \* free results in a list returned by the index
FillerDocs == 7      \* extra single-chunk documents in a long result list
MaxChunks == 2       \* content chunks streamed by the completion model
MaxTurnResults == 1  \* results returned by the index inside a whole turn

ProviderNames == {"openai", "mistral", "claude", "cohere"}
SrcProviders == {"openai", "cohere"}
RequestProviders == {"openai", "mistral", "bogus"}

\* "Bruce Usher ESG?"
EntityQuery == <<"B", "r", "u", "c", "e", " ", "U", "s", "h", "e", "r", " ", "E", "S", "G", "?">>
\* "the": every word is a stop word
StopWordQuery == <<"t", "h", "e">>
Queries == {EntityQuery, StopWordQuery}

\* "solar [48]  grid"
NoMatchContent ==
    <<"s", "o", "l", "a", "r", " ", "[", "4", "8", "]", " ", " ", "g", "r", "i", "d">>
\* "usher [3] " followed by more than 150 characters of text
LongContent ==
    <<"u", "s", "h", "e", "r", " ", "[", "3", "]", " ">> \o [i \in 1..PreviewChars |-> "x"]
\* "esg [7]"
WeakMatchContent == <<"e", "s", "g", " ", "[", "7", "]">>
\* "Bruce Usher on ESG"
FullMatchContent == <<"B", "r", "u", "c", "e", " ", "U", "s", "h", "e", "r", " ", "o", "n", " ", "E", "S", "G">>
\* "esg"
FillerContent == <<"e", "s", "g">>
Contents == {NoMatchContent, FullMatchContent}

Scores == {3000, 3300, 4800}
Documents == {1, 2}

filename_of_doc(d) == IF d = 1 THEN "a.pdf" ELSE IF d = 2 THEN "b.pdf" ELSE "filler.pdf"

\* the results the index may return, before chunk ids are assigned
ResultTemplates ==
    { [id |-> 0, score |-> sc, has_meta |-> TRUE, document_id |-> d,
       filename |-> filename_of_doc(d), content |-> c]
        : sc \in Scores, d \in Documents, c \in Contents }
    \cup { [id |-> 0, score |-> 4800, has_meta |-> FALSE, document_id |-> NoDocumentId,
            filename |-> NoFilename, content |-> <<>>],
           [id |-> 0, score |-> 4800, has_meta |-> TRUE, document_id |-> NoDocumentId,
            filename |-> NoFilename, content |-> WeakMatchContent],
           [id |-> 0, score |-> 4104, has_meta |-> TRUE, document_id |-> 1,
            filename |-> filename_of_doc(1), content |-> LongContent],
           [id |-> 0, score |-> -500, has_meta |-> TRUE, document_id |-> 2,
            filename |-> filename_of_doc(2), content |-> WeakMatchContent] }

\* one chunk each of n further documents, scores between 0.50 and 0.52
FillerResults(n) ==
    [i \in 1..n |-> [id |-> 0, score |-> 5000 + 100 * (i % 3), has_meta |-> TRUE,
                     document_id |-> 10 + i, filename |-> filename_of_doc(10 + i),
                     content |-> FillerContent]]

\* chunk ids are unique per result: position in the list
WithIds(results) == [i \in 1..Len(results) |-> [results[i] EXCEPT !.id = 100 + i]]

SeqsUpTo(S, n) == UNION { [1..k -> S] : k \in 0..n }

\* result lists: up to MaxResults free results, alone or after the filler
ResultLists(n) ==
    { WithIds(f \o t) : f \in {<<>>, FillerResults(FillerDocs)},
                        t \in SeqsUpTo(ResultTemplates, n) }

\* result lists used inside the whole-turn specification
TurnResultLists ==
    { WithIds(t) : t \in SeqsUpTo({ r \in ResultTemplates :
                                       /\ r.score \in {3000, 4800}
                                       /\ r.document_id # 2
                                       /\ (r.score = 3000) = (r.content = NoMatchContent) },
                                  MaxTurnResults) }

-----------------------------------------------------------------------------
(* _extract_person_names and the instructor index *)

\* re.findall(r'[a-zA-Z]+', query), each token lower-cased
tokens_of(query) == FindLowerRuns(Lower(query), 1, <<>>)

\* ' '.join(tokens[i:i+size]).lower(), i counted from 0
RECURSIVE ngram_of(_, _, _)
ngram_of(tokens, i, size) ==
    IF size = 1 THEN tokens[i + 1]
    ELSE tokens[i + 1] \o <<" ">> \o ngram_of(tokens, i + 1, size - 1)

\* token positions i .. i+size-1 of a window
window_positions(i, size) == i..(i + size - 1)

\* faulty variant: the positions already used are not consulted
window_is_free_unchecked(i, size, used_positions) == TRUE

\* `if i in used_positions or i+1 in used_positions ...: continue`
window_is_free(i, size, used_positions) ==
    window_positions(i, size) \cap used_positions = {}

\* one `for i in range(len(tokens) - size + 1)` loop from index i on: the
\* windows accepted so far and the positions they use
RECURSIVE scan_windows(_, _, _, _, _)
scan_windows(tokens, names, size, i, acc) ==
    IF i > Len(tokens) - size THEN acc
    ELSE IF window_is_free(i, size, acc.used_positions)
            /\ ngram_of(tokens, i, size) \in names
    THEN scan_windows(tokens, names, size, i + 1,
             [windows |-> Append(acc.windows, [start |-> i, size |-> size]),
              used_positions |-> acc.used_positions \cup window_positions(i, size)])
    ELSE scan_windows(tokens, names, size, i + 1, acc)

NoWindows == [windows |-> <<>>, used_positions |-> {}]

\* faulty variant: only the 2-word windows are tried
accepted_windows_pairs_only(query, names) ==
    LET tokens == tokens_of(query)
    IN  IF Len(tokens) < 2 \/ names = {} THEN NoWindows
        ELSE scan_windows(tokens, names, 2, 0, NoWindows)

\* the windows _extract_person_names accepts: 3-word windows first, then
\* 2-word windows; names is the key set of the instructor index
accepted_windows(query, names) ==
    LET tokens == tokens_of(query)
    IN  IF Len(tokens) < 2 \/ names = {} THEN NoWindows
        ELSE scan_windows(tokens, names, 2, 0,
                 scan_windows(tokens, names, 3, 0, NoWindows))

\* found_names of _extract_person_names (returned as a list in set order)
extract_person_names(query, names) ==
    LET tokens == tokens_of(query)
        acc == accepted_windows(query, names)
    IN  { ngram_of(tokens, acc.windows[k].start, acc.windows[k].size)
            : k \in 1..Len(acc.windows) }

\* "bruce usher", "sheila foster", "usher esg"
BruceUsher == <<"b", "r", "u", "c", "e", " ", "u", "s", "h", "e", "r">>
SheilaFoster == <<"s", "h", "e", "i", "l", "a", " ", "f", "o", "s", "t", "e", "r">>
UsherEsg == <<"u", "s", "h", "e", "r", " ", "e", "s", "g">>

\* the instructor index of the document service: name -> ids of the
\* documents indexed under that instructor
InstructorIndex ==
    [name \in {BruceUsher, SheilaFoster, UsherEsg} |->
        IF name = BruceUsher THEN {1} ELSE IF name = SheilaFoster THEN {2} ELSE {1, 2}]

instructor_index == DOMAIN InstructorIndex

\* doc_service.get_documents_by_instructor(name)
get_documents_by_instructor(name) ==
    IF name \in DOMAIN InstructorIndex THEN InstructorIndex[name] ELSE {}

\* "Bruce Usher, Sheila Foster"
TwoNamesMessage ==
    <<"B", "r", "u", "c", "e", " ", "U", "s", "h", "e", "r", ",", " ",
      "S", "h", "e", "i", "l", "a", " ", "F", "o", "s", "t", "e", "r">>

-----------------------------------------------------------------------------
(* _sanitize_history_messages *)

MAX_CHARS == 300

\* " [earlier response truncated]"
TruncationMarker ==
    <<" ", "[", "e", "a", "r", "l", "i", "e", "r", " ",
      "r", "e", "s", "p", "o", "n", "s", "e", " ",
      "t", "r", "u", "n", "c", "a", "t", "e", "d", "]">>

\* s.rsplit(' ', 1)[0]: the part before the last space, all of s without one
rsplit_head(s) ==
    IF \E k \in 1..Len(s) : s[k] = " "
    THEN LET last == CHOOSE k \in 1..Len(s) :
                        s[k] = " " /\ \A m \in (k + 1)..Len(s) : s[m] # " "
         IN  SubSeq(s, 1, last - 1)
    ELSE s

\* content[:MAX_CHARS]
head_chars(s, n) == IF Len(s) <= n THEN s ELSE SubSeq(s, 1, n)

\* lines 161-163: markers removed, ends stripped, runs of spaces collapsed
cleaned_content(content) == collapse_spaces(strip(citation_re_sub(content)))

\* lines 164-165
truncate_content(content) ==
    IF Len(content) > MAX_CHARS
    THEN rsplit_head(head_chars(content, MAX_CHARS)) \o TruncationMarker
    ELSE content

NoProvider == "none"

\* faulty variant: every message is cleaned, whatever its role
sanitize_message_any_role(msg) ==
    [id |-> msg.id,
     content |-> truncate_content(cleaned_content(msg.content)),
     role |-> msg.role,
     timestamp |-> msg.timestamp,
     provider |-> NoProvider]

\* lines 159-173: an assistant message is rebuilt from id, cleaned content,
\* role and timestamp (the other fields take their defaults); any other
\* message is passed on as it is
sanitize_message(msg) ==
    IF msg.role = "assistant"
    THEN [id |-> msg.id,
          content |-> truncate_content(cleaned_content(msg.content)),
          role |-> msg.role,
          timestamp |-> msg.timestamp,
          provider |-> NoProvider]
    ELSE msg

\* _sanitize_history_messages
sanitize_history_messages(msgs) == [i \in 1..Len(msgs) |-> sanitize_message(msgs[i])]

-----------------------------------------------------------------------------
(* Conversation context and _rewrite_search_query *)

ContextLimit == 20   \* get_context_messages(..., limit=20)

\* the last n elements of a sequence
LastN(seq, n) == IF Len(seq) <= n THEN seq ELSE SubSeq(seq, Len(seq) - n + 1, Len(seq))

\* get_context_messages: the newest `limit` stored messages, oldest first
get_context_messages(stored, limit) == LastN(stored, limit)

IsUser(role) == role = "user"

\* prior_user_msgs = [m for m in context_messages if m.role == MessageRole.USER]
prior_user_msgs(context_roles) == SelectSeq(context_roles, IsUser)

\* str.strip(chars) for a set of characters
strip_set(s, chars) ==
    IF \A k \in 1..Len(s) : s[k] \in chars THEN <<>>
    ELSE LET first == CHOOSE i \in 1..Len(s) :
                         s[i] \notin chars /\ \A m \in 1..(i - 1) : s[m] \in chars
             last == CHOOSE j \in 1..Len(s) :
                         s[j] \notin chars /\ \A m \in (j + 1)..Len(s) : s[m] \in chars
         IN  SubSeq(s, first, last)

\* response.choices[0].message.content.strip().strip('"')
rewritten_of(text) == strip_set(strip(text), {"\""})

\* an answer of the rewrite model: it raises, or it returns a text
Raises == [kind |-> "raises", text |-> <<>>]
Answers(text) == [kind |-> "text", text |-> text]

\* faulty variant: the answer of the rewrite model is used even when it is empty
rewrite_search_query_unguarded(current_message, context_roles, key, outcome) ==
    IF prior_user_msgs(context_roles) = <<>>
    THEN [result |-> current_message, called |-> FALSE]
    ELSE IF ~key
    THEN [result |-> current_message, called |-> FALSE]
    ELSE IF outcome.kind = "raises"
    THEN [result |-> current_message, called |-> TRUE]
    ELSE [result |-> rewritten_of(outcome.text), called |-> TRUE]

\* faulty variant: the rewrite model is consulted on every message
rewrite_search_query_always(current_message, context_roles, key, outcome) ==
    IF ~key
    THEN [result |-> current_message, called |-> FALSE]
    ELSE IF outcome.kind = "raises"
    THEN [result |-> current_message, called |-> TRUE]
    ELSE IF rewritten_of(outcome.text) # <<>>
    THEN [result |-> rewritten_of(outcome.text), called |-> TRUE]
    ELSE [result |-> current_message, called |-> TRUE]

\* _rewrite_search_query: the value returned and whether the rewrite model
\* was called
rewrite_search_query(current_message, context_roles, key, outcome) ==
    IF prior_user_msgs(context_roles) = <<>>
    THEN [result |-> current_message, called |-> FALSE]
    ELSE IF ~key
    THEN [result |-> current_message, called |-> FALSE]
    ELSE IF outcome.kind = "raises"
    THEN [result |-> current_message, called |-> TRUE]
    ELSE IF rewritten_of(outcome.text) # <<>>
    THEN [result |-> rewritten_of(outcome.text), called |-> TRUE]
    ELSE [result |-> current_message, called |-> TRUE]

\* "his ESG?"
FollowUpMessage == <<"h", "i", "s", " ", "E", "S", "G", "?">>
\* the standalone query in double quotes, with surrounding blanks
QuotedAnswer == <<" ", "\"">> \o EntityQuery \o <<"\"", "\n">>
\* only quotes and blanks
BlankAnswer == <<" ", "\"", "\"", " ">>

\* "Bruce Usher in my file": an instructor name in a question about an attachment
AttachmentQuery ==
    <<"B", "r", "u", "c", "e", " ", "U", "s", "h", "e", "r", " ",
      "i", "n", " ", "m", "y", " ", "f", "i", "l", "e">>

Messages == {EntityQuery, StopWordQuery, FollowUpMessage, TwoNamesMessage, AttachmentQuery}
\* the messages sent inside the whole-turn specification
TurnMessages == Messages \ {StopWordQuery}
RewriteAnswers == {Raises, Answers(<<>>), Answers(BlankAnswer), Answers(QuotedAnswer)}
Histories == {<<>>, <<"user", "assistant">>}

-----------------------------------------------------------------------------
(* classify_intent (services/intent_classifier.py): regular-expression      *)
(* search over the lower-cased message.  A pattern is a sequence of          *)
(* elements: B is \b, Lit(alts) one of several literal texts (groups,        *)
(* optional parts and character sets written out), Rep(class, min) at        *)
(* least min characters of a class (".", \d or a space).                     *)

\* the characters of a string literal
Chars(str) == [i \in 1..Len(str) |-> SubSeq(str, i, i)]

B == [k |-> "b"]
Lit(alts) == [k |-> "lit", alts |-> alts]
Rep(class, min) == [k |-> "rep", class |-> class, min |-> min]

\* \w
IsWordChar(c) == c \in LowerSet \cup UpperSet \cup Digits \cup {"_"}

\* there is a word character at position p of s
word_at(s, p) == p >= 1 /\ p <= Len(s) /\ IsWordChar(s[p])

\* \b holds in front of position p (p = Len(s) + 1 is the end of s)
at_boundary(s, p) == word_at(s, p - 1) # word_at(s, p)

\* ".", \d and " "
in_class(c, class) ==
    CASE class = "any" -> c # "\n"
      [] class = "digit" -> c \in Digits
      [] class = "space" -> c = " "

\* the positions where a match of elems may end when it begins at one of starts
RECURSIVE match_ends(_, _, _)
match_ends(s, starts, elems) ==
    IF elems = <<>> THEN starts
    ELSE LET e == Head(elems)
             next ==
                 CASE e.k = "b" -> { p \in starts : at_boundary(s, p) }
                   [] e.k = "lit" ->
                        UNION { { p + Len(a) :
                                    a \in { x \in e.alts :
                                              /\ p + Len(x) <= Len(s) + 1
                                              /\ SubSeq(s, p, p + Len(x) - 1) = Chars(x) } }
                                : p \in starts }
                   [] e.k = "rep" ->
                        { q \in 1..(Len(s) + 1) :
                            \E p \in starts :
                                /\ q >= p + e.min
                                /\ \A m \in p..(q - 1) : in_class(s[m], e.class) }
         IN  match_ends(s, next, Tail(elems))

\* re.search(pattern, s) finds a match
re_search(pattern, s) == match_ends(s, 1..(Len(s) + 1), pattern) # {}

\* any pattern of the list is found in s
any_pattern_matches(patterns, s) ==
    \E j \in 1..Len(patterns) : re_search(patterns[j], s)

\* \bversus\b|\bvs\.?\b is written as the one group \b(versus|vs|vs\.)\b
INTENT_DEFINITIONS ==
    << [intent |-> "summarize", label |-> "Summary",
        patterns |-> <<
            <<B, Lit({"summary", "summarize", "summarise"}), B>>,
            <<B, Lit({"overview"}), B>>,
            <<B, Lit({"what is this about", "what is this document"}), B>>,
            <<B, Lit({"key points", "key takeaways", "key findings"}), B>>,
            <<B, Lit({"tldr", "tl;dr"}), B>>,
            <<B, Lit({"gist"}), B>>,
            <<B, Lit({"highlevel", "high-level", "high level"}), B>>,
            <<B, Lit({"main idea", "main ideas", "main theme", "main themes", "main point",
                "main points"}), B>>
        >>],
        [intent |-> "explain", label |-> "Explainer",
        patterns |-> <<
            <<B, Lit({"explain"}), B>>,
            <<B, Lit({"simpler", "simplify", "simple terms"}), B>>,
            <<B, Lit({"break down", "break it down", "break this down"}), B>>,
            <<B, Lit({"what does "}), Rep("any", 1), Lit({" mean"}), B>>,
            <<B, Lit({"define"}), B>>,
            <<B, Lit({"in plain terms", "in plain language", "in plain words", "in simple terms",
                "in simple language", "in simple words", "in layman terms", "in layman language",
                "in layman words", "in everyday terms", "in everyday language",
                "in everyday words"}), B>>,
            <<B, Lit({"help me understand"}), B>>,
            <<B, Lit({"what is "}), Rep("any", 1), Lit({" in the context"}), B>>
        >>],
        [intent |-> "compare", label |-> "Comparison",
        patterns |-> <<
            <<B, Lit({"compare", "comparison", "comparing"}), B>>,
            <<B, Lit({"difference", "different", "differences", "differentiate"}), B>>,
            <<B, Lit({"contrast"}), B>>,
            <<B, Lit({"versus", "vs", "vs."}), B>>,
            <<B, Lit({"how does ", "how do "}), Rep("any", 1), Lit({" differ"}), B>>,
            <<B, Lit({"similarity", "similarities"}), B>>,
            <<B, Lit({"relate between", "relationship between"}), B>>
        >>],
        [intent |-> "case_study", label |-> "Case Study",
        patterns |-> <<
            <<B, Lit({"case study", "case studies"}), B>>,
            <<B, Lit({"realworld example", "real-world example", "real world example"}), B>>,
            <<B, Lit({"practical example", "practical application", "practical scenario"}), B>>,
            <<B, Lit({"application of"}), B>>,
            <<B, Lit({"how is ", "how are ", "how was ", "how were "}), Rep("any", 1),
                Lit({" used", " applied", " implemented"}), B>>,
            <<B, Lit({"in practice"}), B>>,
            <<B, Lit({"scenario"}), B>>
        >>],
        [intent |-> "generate_questions", label |-> "Assessment",
        patterns |-> <<
            <<B, Lit({"generate ", "create ", "write ", "give me ", "suggest ", "come up with "}),
                Rep("any", 0), Lit({"question", "questions", "quiz", "exam", "test",
                "assessment"}), B>>,
            <<B, Lit({"quiz me"}), B>>,
            <<B, Lit({"test me"}), B>>,
            <<B, Lit({"question about", "question on", "question for", "question from",
                "questions about", "questions on", "questions for", "questions from"}), B>>,
            <<B, Lit({"assessment"}), B>>,
            <<B, Lit({"exam prep", "exam question", "exam questions"}), B>>,
            <<B, Lit({"study guide", "study question", "study questions"}), B>>,
            <<B, Lit({"what question could", "what questions could"}), B>>
        >>],
        [intent |-> "critique", label |-> "Critique",
        patterns |-> <<
            <<B, Lit({"critique", "critiquing"}), B>>,
            <<B, Lit({"weakness", "weaknesses"}), B>>,
            <<B, Lit({"limitation", "limitations"}), B>>,
            <<B, Lit({"strength", "strengths"}), B>>,
            <<B, Lit({"gap in", "gaps in"}), B>>,
            <<B, Lit({"bias", "biases"}), B>>,
            <<B, Lit({"shortcoming", "shortcomings"}), B>>,
            <<B, Lit({"critical analysis", "critical review", "critical assessment"}), B>>,
            <<B, Lit({"evaluate", "evaluation"}), B>>
        >>],
        [intent |-> "methodology", label |-> "Methodology",
        patterns |-> <<
            <<B, Lit({"methodology", "methodologies", "methodological"}), B>>,
            <<B, Lit({"research design", "research method", "research approach"}), B>>,
            <<B, Lit({"how did they study", "how did they research", "how did they measure",
                "how did they collect", "how did they analyze", "how do they study",
                "how do they research", "how do they measure", "how do they collect",
                "how do they analyze"}), B>>,
            <<B, Lit({"data collection", "data source", "data set"}), B>>,
            <<B, Lit({"sample", "sampling"}), B>>,
            <<B, Lit({"experimental design", "experimental setup"}), B>>,
            <<B, Lit({"framework"}), B>>
        >>],
        [intent |-> "lesson_plan", label |-> "Lesson Plan",
        patterns |-> <<
            <<B, Lit({"lesson plan"}), B>>,
            <<B, Lit({"teaching plan", "teaching strategy", "teaching approach",
                "teaching activity", "teaching activities"}), B>>,
            <<B, Lit({"how to teach", "how would you teach", "how should I teach"}), B>>,
            <<B, Lit({"classroom activity", "classroom activities", "classroom exercise",
                "classroom discussion"}), B>>,
            <<B, Lit({"curriculum"}), B>>,
            <<B, Lit({"learning objective", "learning objectives", "learning outcome",
                "learning outcomes", "learning goal", "learning goals"}), B>>,
            <<B, Lit({"course design", "course structure", "course outline"}), B>>,
            <<B, Lit({"pedagogy", "pedagogical"}), B>>,
            <<B, Lit({"instructional"}), B>>
        >>] >>

ATTACHMENT_ONLY_PATTERNS ==
    <<
        <<B, Lit({"this ", "these ", "the ", "my "}), Rep("digit", 0), Rep("space", 0),
            Lit({"document", "file", "attachment", "upload", "paper", "syllab", "pdf"})>>,
        <<B, Lit({"what is this about", "what is these about", "what is it about",
            "what is they about", "what are this about", "what are these about",
            "what are it about", "what are they about"}), B>>,
        <<B, Lit({"tell me about this document", "tell me about this file",
            "tell me about this paper", "tell me about this syllab",
            "tell me about these document", "tell me about these file",
            "tell me about these paper", "tell me about these syllab",
            "tell me about the document", "tell me about the file", "tell me about the paper",
            "tell me about the syllab", "what about this document", "what about this file",
            "what about this paper", "what about this syllab", "what about these document",
            "what about these file", "what about these paper", "what about these syllab",
            "what about the document", "what about the file", "what about the paper",
            "what about the syllab"})>>,
        <<B, Lit({"uploaded document", "uploaded file", "uploaded paper", "uploaded syllab"})>>,
        <<B, Lit({"read this document", "read this file", "read this paper",
            "read this attachment", "read this syllab", "read these document", "read these file",
            "read these paper", "read these attachment", "read these syllab", "read the document",
            "read the file", "read the paper", "read the attachment", "read the syllab",
            "read my document", "read my file", "read my paper", "read my attachment",
            "read my syllab", "analyze this document", "analyze this file", "analyze this paper",
            "analyze this attachment", "analyze this syllab", "analyze these document",
            "analyze these file", "analyze these paper", "analyze these attachment",
            "analyze these syllab", "analyze the document", "analyze the file",
            "analyze the paper", "analyze the attachment", "analyze the syllab",
            "analyze my document", "analyze my file", "analyze my paper", "analyze my attachment",
            "analyze my syllab", "review this document", "review this file", "review this paper",
            "review this attachment", "review this syllab", "review these document",
            "review these file", "review these paper", "review these attachment",
            "review these syllab", "review the document", "review the file", "review the paper",
            "review the attachment", "review the syllab", "review my document", "review my file",
            "review my paper", "review my attachment", "review my syllab", "parse this document",
            "parse this file", "parse this paper", "parse this attachment", "parse this syllab",
            "parse these document", "parse these file", "parse these paper",
            "parse these attachment", "parse these syllab", "parse the document", "parse the file",
            "parse the paper", "parse the attachment", "parse the syllab", "parse my document",
            "parse my file", "parse my paper", "parse my attachment", "parse my syllab",
            "look at this document", "look at this file", "look at this paper",
            "look at this attachment", "look at this syllab", "look at these document",
            "look at these file", "look at these paper", "look at these attachment",
            "look at these syllab", "look at the document", "look at the file",
            "look at the paper", "look at the attachment", "look at the syllab",
            "look at my document", "look at my file", "look at my paper", "look at my attachment",
            "look at my syllab"})>>,
        <<B, Lit({"what does this document", "what does this file", "what does this paper",
            "what does this syllab", "what does these document", "what does these file",
            "what does these paper", "what does these syllab", "what does the document",
            "what does the file", "what does the paper", "what does the syllab",
            "what does my document", "what does my file", "what does my paper",
            "what does my syllab", "what do this document", "what do this file",
            "what do this paper", "what do this syllab", "what do these document",
            "what do these file", "what do these paper", "what do these syllab",
            "what do the document", "what do the file", "what do the paper", "what do the syllab",
            "what do my document", "what do my file", "what do my paper", "what do my syllab"})>>,
        <<B, Lit({"this ", "these "}), Rep("digit", 1), Lit({" document", " file", " paper",
            " syllab"})>>,
        <<B, Lit({"in this document", "in this file", "in this paper", "in this attachment",
            "in this syllab", "in these document", "in these file", "in these paper",
            "in these attachment", "in these syllab", "in the document", "in the file",
            "in the paper", "in the attachment", "in the syllab", "in my document", "in my file",
            "in my paper", "in my attachment", "in my syllab"})>>
    >>

KNOWLEDGE_BASE_PATTERNS ==
    <<
        <<B, Lit({"who else"}), B>>,
        <<B, Lit({"what other", "what else"}), B>>,
        <<B, Lit({"other course", "other professor", "other instructor", "other syllab",
            "other document", "other paper", "other reading"})>>,
        <<B, Lit({"similar to", "similar course", "similar topic", "similar reading",
            "similar content"})>>,
        <<B, Lit({"find similar", "find related", "find others", "find matching"})>>,
        <<B, Lit({"across the", "across all", "across our"}), B>>,
        <<B, Lit({"in the database", "in the knowledge", "in the collection", "in the corpus",
            "in the system", "in our database", "in our knowledge", "in our collection",
            "in our corpus", "in our system"})>>,
        <<B, Lit({"compare with other", "compare with the", "compare with existing",
            "compare to other", "compare to the", "compare to existing", "compare against other",
            "compare against the", "compare against existing"})>>,
        <<B, Lit({"who teaches", "who covers", "who has", "who offers"}), B>>,
        <<B, Lit({"knowledge base"}), B>>
    >>

\* the fallback IntentResult
Generalist == [intent |-> "generalist", label |-> "Generalist"]

\* message.lower().strip()
message_lower_of(msg) == strip(Lower(msg))

\* faulty variant: attachment-only patterns are consulted first
should_use_knowledge_base_attachment_first(msg) ==
    LET lower == message_lower_of(msg)
    IN  IF any_pattern_matches(ATTACHMENT_ONLY_PATTERNS, lower) THEN FALSE
        ELSE TRUE

\* _should_use_knowledge_base
should_use_knowledge_base(msg) ==
    LET lower == message_lower_of(msg)
    IN  IF any_pattern_matches(KNOWLEDGE_BASE_PATTERNS, lower) THEN TRUE
        ELSE IF any_pattern_matches(ATTACHMENT_ONLY_PATTERNS, lower) THEN FALSE
        ELSE TRUE

\* faulty variant: the scan goes on and the last matching definition wins
RECURSIVE last_matching_definition(_, _, _)
last_matching_definition(definitions, lower, fallback) ==
    IF definitions = <<>> THEN fallback
    ELSE LET d == definitions[Len(definitions)]
         IN  IF any_pattern_matches(d.patterns, lower)
             THEN [intent |-> d.intent, label |-> d.label]
             ELSE last_matching_definition(
                      SubSeq(definitions, 1, Len(definitions) - 1), lower, fallback)

\* `for definition in INTENT_DEFINITIONS: for pattern in ...: return`
RECURSIVE first_matching_definition(_, _, _)
first_matching_definition(definitions, lower, fallback) ==
    IF definitions = <<>> THEN fallback
    ELSE LET d == Head(definitions)
         IN  IF any_pattern_matches(d.patterns, lower)
             THEN [intent |-> d.intent, label |-> d.label]
             ELSE first_matching_definition(Tail(definitions), lower, fallback)

\* lines 315-317
use_kb_of(msg, has_att) ==
    IF has_att THEN should_use_knowledge_base(msg) ELSE TRUE

\* classify_intent (prompt_suffix is fixed by the intent and is left out)
classify_intent(msg, has_att) ==
    LET found == first_matching_definition(INTENT_DEFINITIONS,
                                           message_lower_of(msg), Generalist)
    IN  [intent |-> found.intent,
         label |-> found.label,
         use_knowledge_base |-> use_kb_of(msg, has_att)]

-----------------------------------------------------------------------------
(* stream_chat: the request handler, its retrieval task and the response   *)
(* generator.                                                              *)

Event(type, detail) == [type |-> type, detail |-> detail]
KbUnavailable == Event("error", "knowledge base unavailable")

\* faulty variant: only caller-supplied ids count as pre-filtered
pre_filtered_explicit_only == search_doc_ids = "explicit"

\* pre_filtered = search_doc_ids is not None
pre_filtered == search_doc_ids # "none"

\* faulty variant: no over-fetch, the index is asked for top_k candidates
pinecone_top_k_exact(mode) == top_k_of(mode)

\* pinecone_top_k = max(research_config.top_k * 3, 20)
pinecone_top_k(mode) ==
    IF top_k_of(mode) * 3 > 20 THEN top_k_of(mode) * 3 ELSE 20

\* document_ids=None and the state before create_task
NoDocumentIds == {}
NoSearchArgs == [query |-> <<>>, top_k |-> 0, document_ids |-> NoDocumentIds]
NoEntity == <<>>
ExplicitDocumentIds == {1}

IdleCall == [fn |-> "none"]
NoCallOut == [fn |-> "none"]

\* the request-scoped values before the request is read
RequestUnread ==
    /\ message = <<>>
    /\ request_document_ids = NoDocumentIds
    /\ rewrite_invocations = 0
    /\ rewrite_calls = 0
    /\ primary_entity = NoEntity
    /\ search_args = NoSearchArgs
    /\ has_attachments = FALSE
    /\ extract_calls = 0

IdleBoost == [content |-> <<>>, query_terms |-> <<>>, score |-> 0]
NoBoostOut == [entity_boost |-> -1, effective_score |-> 0]

Init ==
    /\ pc = "start"
    /\ http_error = 0
    /\ provider_name = "unset"
    /\ providers \in {ProviderNames, SrcProviders}
    /\ instances = {}
    /\ use_kb = TRUE
    /\ title_updated = FALSE
    /\ research_mode = "quick"
    /\ search_query = <<>>
    /\ query_terms = <<>>
    /\ search_doc_ids = "none"
    /\ rag_task = "none"
    /\ search_issued = FALSE
    /\ rag_awaited = FALSE
    /\ search_results = <<>>
    /\ doc_groups = <<>>
    /\ sources = <<>>
    /\ context = NoContext
    /\ attachment_context = FALSE
    /\ events = <<>>
    /\ llm_invoked = FALSE
    /\ messages = <<>>
    /\ history \in Histories
    /\ mistral_api_key \in BOOLEAN
    /\ RequestUnread
    /\ boost_in = IdleBoost
    /\ boost_out = NoBoostOut
    /\ call_in = IdleCall
    /\ call_out = NoCallOut

\* lines 276-303: the checks that raise HTTPException before anything is stored
RejectRequest ==
    /\ pc = "start"
    /\ \E status \in {404, 400} : http_error' = status
    /\ pc' = "raised"
    /\ UNCHANGED <<provider_name, providers, instances, use_kb, title_updated,
                   research_mode, search_query, query_terms, search_doc_ids, rag_task,
                   search_issued, rag_awaited, search_results, doc_groups,
                   sources, context, attachment_context, events, llm_invoked,
                   messages>>
    /\ UNCHANGED boost_vars
    /\ UNCHANGED call_vars
    /\ UNCHANGED request_vars

\* lines 305-337: store the user message, title, attachments, intent, mode
AcceptRequest ==
    /\ pc = "start"
    /\ \E p \in RequestProviders \ {"bogus"}, t \in BOOLEAN, m \in ResearchModes,
          listed \in BOOLEAN, att \in BOOLEAN, msg \in TurnMessages :
          /\ att => listed
          /\ provider_name' = p
          /\ title_updated' = t
          /\ message' = msg
          /\ has_attachments' = listed
          /\ use_kb' = classify_intent(msg, listed).use_knowledge_base
          /\ research_mode' = m
          /\ attachment_context' = att
    /\ request_document_ids' \in {NoDocumentIds, ExplicitDocumentIds}
    /\ messages' = Append(messages, "user")
    /\ pc' = "rewrite"
    /\ UNCHANGED <<http_error, providers, instances, search_query, query_terms, search_doc_ids,
                   rag_task, search_issued, rag_awaited, search_results,
                   doc_groups, sources, context, events, llm_invoked>>
    /\ UNCHANGED <<history, mistral_api_key, rewrite_invocations, rewrite_calls,
                   primary_entity, search_args, extract_calls>>
    /\ UNCHANGED boost_vars
    /\ UNCHANGED call_vars

\* lines 336-337: the stored messages, the current one included; the
\* sanitizer keeps length, order and roles
context_messages == get_context_messages(history \o messages, ContextLimit)

\* lines 336-343: search_query = await _rewrite_search_query(...)
RewriteQuery ==
    /\ pc = "rewrite"
    /\ \E outcome \in RewriteAnswers :
          LET r == rewrite_search_query(message, context_messages,
                                        mistral_api_key, outcome)
          IN  /\ search_query' = r.result
              /\ rewrite_calls' = rewrite_calls + (IF r.called THEN 1 ELSE 0)
    /\ rewrite_invocations' = rewrite_invocations + 1
    /\ pc' = "kb_setup"
    /\ UNCHANGED <<message, history, mistral_api_key, request_document_ids,
                   primary_entity, search_args, has_attachments, extract_calls>>
    /\ UNCHANGED <<query_terms, http_error, provider_name, providers, instances, use_kb,
                   title_updated, research_mode, search_doc_ids, rag_task,
                   search_issued, rag_awaited, search_results, doc_groups,
                   sources, context, attachment_context, events, llm_invoked,
                   messages>>
    /\ UNCHANGED boost_vars
    /\ UNCHANGED call_vars

\* asyncio.create_task(...): the coroutine is scheduled, it has not run yet
create_task == "scheduled"

\* faulty variant: the retrieval task is created whatever the intent says
rag_task_always(kb) == create_task

\* lines 348-350 and 377: rag_task stays None unless the knowledge base is needed
rag_task_of(kb) == IF kb THEN create_task ELSE "none"

\* faulty variant: the detected instructor's documents are not used
doc_ids_without_entity(request_ids, instructor_docs) == request_ids

\* lines 349 and 356-364: request.document_ids when given, else the documents
\* of the detected instructor (none when there is no such document)
doc_ids_of(request_ids, instructor_docs) ==
    IF request_ids # NoDocumentIds THEN request_ids ELSE instructor_docs

\* faulty variant: the raw message is searched instead of the rewritten query
search_documents_args_raw(query, top_k, document_ids) ==
    [query |-> message, top_k |-> top_k, document_ids |-> document_ids]

\* lines 378-382: the keyword arguments of search_documents
search_documents_args(query, top_k, document_ids) ==
    [query |-> query, top_k |-> top_k, document_ids |-> document_ids]

\* lines 347-383: document filter, then the retrieval task when the intent asks for it
SetupSearch ==
    /\ pc = "kb_setup"
    /\ LET extracts == use_kb /\ request_document_ids = NoDocumentIds
           person_names == IF extracts
                           THEN extract_person_names(message, instructor_index)
                           ELSE {}
       IN  /\ extract_calls' = extract_calls + (IF extracts THEN 1 ELSE 0)
           /\ \E first \in (IF person_names # {} THEN person_names ELSE {NoEntity}) :
                 LET instructor_docs == get_documents_by_instructor(first)
                     doc_ids == doc_ids_of(request_document_ids, instructor_docs)
                 IN  /\ search_doc_ids' =
                           IF request_document_ids # NoDocumentIds THEN "explicit"
                           ELSE IF instructor_docs # {} THEN "entity"
                           ELSE "none"
                     /\ primary_entity' = IF instructor_docs # {} THEN first ELSE NoEntity
                     /\ search_args' =
                           IF use_kb
                           THEN search_documents_args(
                                    search_query, pinecone_top_k(research_mode), doc_ids)
                           ELSE NoSearchArgs
    /\ rag_task' = rag_task_of(use_kb)
    /\ pc' = "get_provider"
    /\ UNCHANGED <<message, history, mistral_api_key, request_document_ids,
                   rewrite_invocations, rewrite_calls, has_attachments>>
    /\ UNCHANGED <<http_error, provider_name, providers, instances, use_kb,
                   title_updated, research_mode, search_query, query_terms, search_issued,
                   rag_awaited, search_results, doc_groups, sources, context,
                   attachment_context, events, llm_invoked, messages>>
    /\ UNCHANGED boost_vars
    /\ UNCHANGED call_vars

\* ProviderRegistry.get_provider raises ValueError("Unknown provider")
get_provider_raises(name) == name \notin instances /\ name \notin providers

\* faulty variant: the task is left alone when the provider lookup raises
leave_task_on_provider_error(task) == task

\* rag_task.cancel() in `except ValueError`, guarded by `rag_task is not None`
cancel_on_provider_error(task) ==
    IF task # "none" THEN "cancel_requested" ELSE task

\* lines 386-391: the provider is returned (cached or constructed)
GetProviderOk ==
    /\ pc = "get_provider"
    /\ ~get_provider_raises(provider_name)
    /\ instances' = instances \cup {provider_name}
    /\ rag_awaited' = (rag_task # "none")
    /\ pc' = "await_rag"
    /\ UNCHANGED <<http_error, provider_name, providers, use_kb, title_updated,
                   research_mode, search_query, query_terms, search_doc_ids, rag_task,
                   search_issued, search_results, doc_groups, sources, context,
                   attachment_context, events, llm_invoked, messages>>
    /\ UNCHANGED boost_vars
    /\ UNCHANGED call_vars
    /\ UNCHANGED request_vars

\* lines 392-395: ValueError -> cancel the task, raise HTTPException(400)
GetProviderFails ==
    /\ pc = "get_provider"
    /\ get_provider_raises(provider_name)
    /\ rag_task' = cancel_on_provider_error(rag_task)
    /\ http_error' = 400
    /\ pc' = "raised"
    /\ UNCHANGED <<provider_name, providers, instances, use_kb, title_updated,
                   research_mode, search_query, query_terms, search_doc_ids, search_issued,
                   rag_awaited, search_results, doc_groups, sources, context,
                   attachment_context, events, llm_invoked, messages>>
    /\ UNCHANGED boost_vars
    /\ UNCHANGED call_vars
    /\ UNCHANGED request_vars

\* The event loop runs a scheduled task only once the running handler has
\* suspended at an await or has ended: the handler segment from create_task
\* to `await rag_task` contains no await.
loop_is_free == pc \in {"await_rag", "raised"}

\* first step of the task: search_documents starts and calls the index
TaskStart ==
    /\ rag_task = "scheduled"
    /\ loop_is_free
    /\ rag_task' = "running"
    /\ search_issued' = TRUE
    /\ UNCHANGED <<pc, http_error, provider_name, providers, instances, use_kb,
                   title_updated, research_mode, search_query, query_terms, search_doc_ids,
                   rag_awaited, search_results, doc_groups, sources, context,
                   attachment_context, events, llm_invoked, messages>>
    /\ UNCHANGED boost_vars
    /\ UNCHANGED call_vars
    /\ UNCHANGED request_vars

\* search_documents filters on document_id only when document_ids is given
matches_filter(results, document_ids) ==
    document_ids = NoDocumentIds
    \/ \A i \in 1..Len(results) : results[i].document_id \in document_ids

\* the index answers
TaskSucceeds ==
    /\ rag_task = "running"
    /\ loop_is_free
    /\ rag_task' = "done"
    /\ search_results' \in { rs \in TurnResultLists :
                               matches_filter(rs, search_args.document_ids) }
    /\ UNCHANGED <<pc, http_error, provider_name, providers, instances, use_kb,
                   title_updated, research_mode, search_query, query_terms, search_doc_ids,
                   search_issued, rag_awaited, doc_groups, sources, context,
                   attachment_context, events, llm_invoked, messages>>
    /\ UNCHANGED boost_vars
    /\ UNCHANGED call_vars
    /\ UNCHANGED request_vars

\* the embedding or index call raises (quota, timeout, network)
TaskFails ==
    /\ rag_task = "running"
    /\ loop_is_free
    /\ rag_task' = "failed"
    /\ UNCHANGED <<pc, http_error, provider_name, providers, instances, use_kb,
                   title_updated, research_mode, search_query, query_terms, search_doc_ids,
                   search_issued, rag_awaited, search_results, doc_groups,
                   sources, context, attachment_context, events, llm_invoked,
                   messages>>
    /\ UNCHANGED boost_vars
    /\ UNCHANGED call_vars
    /\ UNCHANGED request_vars

\* a task cancelled before its first step ends without running its coroutine
TaskCancelled ==
    /\ rag_task = "cancel_requested"
    /\ loop_is_free
    /\ rag_task' = "cancelled"
    /\ UNCHANGED <<pc, http_error, provider_name, providers, instances, use_kb,
                   title_updated, research_mode, search_query, query_terms, search_doc_ids,
                   search_issued, rag_awaited, search_results, doc_groups,
                   sources, context, attachment_context, events, llm_invoked,
                   messages>>
    /\ UNCHANGED boost_vars
    /\ UNCHANGED call_vars
    /\ UNCHANGED request_vars

\* lines 528-540: attachment text is prepended to the context
with_attachment(ctx, att) == IF att THEN [ctx EXCEPT !.attachment = TRUE] ELSE ctx

\* lines 403-506 and 528-540: `await rag_task` returns the results
ResumeWithResults ==
    /\ pc = "await_rag"
    /\ rag_task = "done"
    /\ LET terms == extract_query_terms(search_query)
           groups == fold_results(<<>>, search_results, terms,
                                  min_score_of(research_mode), pre_filtered)
           sorted_groups == sorted_groups_of(groups, top_k_of(research_mode))
       IN  /\ query_terms' = terms
           /\ doc_groups' = groups
           /\ sources' = build_sources(sorted_groups, 1)
           /\ context' = with_attachment(
                             kb_context_of(build_context_parts(sorted_groups, 1)),
                             attachment_context)
    /\ pc' = "gen_title"
    /\ UNCHANGED <<http_error, provider_name, providers, instances, use_kb,
                   title_updated, research_mode, search_query, search_doc_ids,
                   rag_task, search_issued, rag_awaited, search_results,
                   attachment_context, events, llm_invoked, messages>>
    /\ UNCHANGED boost_vars
    /\ UNCHANGED call_vars
    /\ UNCHANGED request_vars

\* faulty variant: a cancelled await is reported like a failed search
ResumeCancelledAsError ==
    /\ pc = "await_rag"
    /\ rag_task \in {"scheduled", "running"}
    /\ rag_task' = "cancelled"
    /\ pc' = "error_stream"
    /\ UNCHANGED <<http_error, provider_name, providers, instances, use_kb,
                   title_updated, research_mode, search_query, query_terms, search_doc_ids,
                   search_issued, rag_awaited, search_results, doc_groups,
                   sources, context, attachment_context, events, llm_invoked, messages>>
    /\ UNCHANGED boost_vars
    /\ UNCHANGED call_vars
    /\ UNCHANGED request_vars

\* lines 507-508 and 528-540: the await ends in CancelledError, which is
\* swallowed; cancelling the awaiting handler cancels the awaited task
ResumeCancelled ==
    /\ pc = "await_rag"
    /\ rag_task \in {"scheduled", "running"}
    /\ rag_task' = "cancelled"
    /\ context' = with_attachment(NoContext, attachment_context)
    /\ pc' = "gen_title"
    /\ UNCHANGED <<http_error, provider_name, providers, instances, use_kb,
                   title_updated, research_mode, search_query, query_terms, search_doc_ids,
                   search_issued, rag_awaited, search_results, doc_groups,
                   sources, attachment_context, events, llm_invoked, messages>>
    /\ UNCHANGED boost_vars
    /\ UNCHANGED call_vars
    /\ UNCHANGED request_vars

\* faulty variant: a failed search is swallowed and the turn goes on ungrounded
ResumeSwallowingError ==
    /\ pc = "await_rag"
    /\ rag_task = "failed"
    /\ context' = with_attachment(NoContext, attachment_context)
    /\ pc' = "gen_title"
    /\ UNCHANGED <<http_error, provider_name, providers, instances, use_kb,
                   title_updated, research_mode, search_query, query_terms, search_doc_ids,
                   rag_task, search_issued, rag_awaited, search_results,
                   doc_groups, sources, attachment_context, events,
                   llm_invoked, messages>>
    /\ UNCHANGED boost_vars
    /\ UNCHANGED call_vars
    /\ UNCHANGED request_vars

\* lines 509-525: any other exception -> the one-event error response
ResumeWithError ==
    /\ pc = "await_rag"
    /\ rag_task = "failed"
    /\ pc' = "error_stream"
    /\ UNCHANGED <<http_error, provider_name, providers, instances, use_kb,
                   title_updated, research_mode, search_query, query_terms, search_doc_ids,
                   rag_task, search_issued, rag_awaited, search_results,
                   doc_groups, sources, context, attachment_context, events,
                   llm_invoked, messages>>
    /\ UNCHANGED boost_vars
    /\ UNCHANGED call_vars
    /\ UNCHANGED request_vars

\* lines 401 and 528-540: no retrieval task, only attachment context
SkipRetrieval ==
    /\ pc = "await_rag"
    /\ rag_task = "none"
    /\ context' = with_attachment(NoContext, attachment_context)
    /\ pc' = "gen_title"
    /\ UNCHANGED <<http_error, provider_name, providers, instances, use_kb,
                   title_updated, research_mode, search_query, query_terms, search_doc_ids,
                   rag_task, search_issued, rag_awaited, search_results,
                   doc_groups, sources, attachment_context, events,
                   llm_invoked, messages>>
    /\ UNCHANGED boost_vars
    /\ UNCHANGED call_vars
    /\ UNCHANGED request_vars

\* _error_stream: the single error event
EmitKbError ==
    /\ pc = "error_stream"
    /\ events' = Append(events, KbUnavailable)
    /\ pc' = "finished"
    /\ UNCHANGED <<http_error, provider_name, providers, instances, use_kb,
                   title_updated, research_mode, search_query, query_terms, search_doc_ids,
                   rag_task, search_issued, rag_awaited, search_results,
                   doc_groups, sources, context, attachment_context,
                   llm_invoked, messages>>
    /\ UNCHANGED boost_vars
    /\ UNCHANGED call_vars
    /\ UNCHANGED request_vars

\* generate() changes only pc, events, llm_invoked and messages
GenFrame ==
    /\ UNCHANGED <<http_error, provider_name, providers, instances, use_kb,
                   title_updated, research_mode, search_query, query_terms, search_doc_ids,
                   rag_task, search_issued, rag_awaited, search_results,
                   doc_groups, sources, context, attachment_context>>
    /\ UNCHANGED boost_vars
    /\ UNCHANGED call_vars
    /\ UNCHANGED request_vars

\* lines 549-555
EmitTitle ==
    /\ pc = "gen_title"
    /\ events' = IF title_updated
                 THEN Append(events, Event("discussion_title", ""))
                 ELSE events
    /\ pc' = "gen_sources"
    /\ UNCHANGED <<llm_invoked, messages>>
    /\ GenFrame

\* lines 558-564
EmitSources ==
    /\ pc = "gen_sources"
    /\ events' = IF sources # <<>>
                 THEN Append(events, Event("sources", ""))
                 ELSE events
    /\ pc' = "gen_intent"
    /\ UNCHANGED <<llm_invoked, messages>>
    /\ GenFrame

\* lines 567-572
EmitIntent ==
    /\ pc = "gen_intent"
    /\ events' = Append(events, Event("intent", ""))
    /\ pc' = "gen_stream"
    /\ UNCHANGED <<llm_invoked, messages>>
    /\ GenFrame

NumChunks == Cardinality({i \in 1..Len(events) : events[i].type = "chunk"})

\* create_sse_response, lines 26-33: one chunk of the completion stream
StreamChunk ==
    /\ pc = "gen_stream"
    /\ NumChunks < MaxChunks
    /\ llm_invoked' = TRUE
    /\ events' = Append(events, Event("chunk", ""))
    /\ UNCHANGED <<pc, messages>>
    /\ GenFrame

\* faulty variant: the stream is read on after it raised
StreamErrorKeepsStreaming ==
    /\ pc = "gen_stream"
    /\ llm_invoked' = TRUE
    /\ events' = Append(events, Event("error", "stream exception"))
    /\ UNCHANGED <<pc, messages>>
    /\ GenFrame

\* create_sse_response, lines 34-44: the completion stream raises
StreamError ==
    /\ pc = "gen_stream"
    /\ llm_invoked' = TRUE
    /\ events' = Append(events, Event("error", "stream exception"))
    /\ pc' = "gen_suggest"
    /\ UNCHANGED messages
    /\ GenFrame

\* the completion stream is exhausted
StreamEnd ==
    /\ pc = "gen_stream"
    /\ llm_invoked' = TRUE
    /\ pc' = "gen_suggest"
    /\ UNCHANGED <<events, messages>>
    /\ GenFrame

\* lines 611-637: suggested questions, an empty answer and an exception emit nothing
SuggestQuestions ==
    /\ pc = "gen_suggest"
    /\ \E produced \in BOOLEAN :
          events' = IF produced
                    THEN Append(events, Event("suggested_questions", ""))
                    ELSE events
    /\ pc' = "gen_done"
    /\ UNCHANGED <<llm_invoked, messages>>
    /\ GenFrame

\* line 640
EmitDone ==
    /\ pc = "gen_done"
    /\ events' = Append(events, Event("done", ""))
    /\ pc' = "persist"
    /\ UNCHANGED <<llm_invoked, messages>>
    /\ GenFrame

\* line 642
PersistAssistant ==
    /\ pc = "persist"
    /\ messages' = Append(messages, "assistant")
    /\ pc' = "finished"
    /\ UNCHANGED <<events, llm_invoked>>
    /\ GenFrame

Next ==
    \/ RejectRequest
    \/ AcceptRequest
    \/ RewriteQuery
    \/ SetupSearch
    \/ GetProviderOk
    \/ GetProviderFails
    \/ TaskStart
    \/ TaskSucceeds
    \/ TaskFails
    \/ TaskCancelled
    \/ ResumeWithResults
    \/ ResumeCancelled
    \/ ResumeWithError
    \/ SkipRetrieval
    \/ EmitKbError
    \/ EmitTitle
    \/ EmitSources
    \/ EmitIntent
    \/ StreamChunk
    \/ StreamError
    \/ StreamEnd
    \/ SuggestQuestions
    \/ EmitDone
    \/ PersistAssistant

Spec == Init /\ [][Next]_vars

-----------------------------------------------------------------------------
(* The ranking step on a wide range of index answers: the turn is taken up *)
(* at `await rag_task`, when the search has just returned.                 *)

RankInit ==
    /\ pc = "await_rag"
    /\ http_error = 0
    /\ provider_name = "openai"
    /\ providers = ProviderNames
    /\ instances = {"openai"}
    /\ use_kb = TRUE
    /\ title_updated = FALSE
    /\ research_mode \in ResearchModes
    /\ search_query = EntityQuery
    /\ query_terms = <<>>
    /\ search_doc_ids \in {"none", "explicit"}
    /\ rag_task = "done"
    /\ search_issued = TRUE
    /\ rag_awaited = TRUE
    /\ search_results \in ResultLists(MaxResults)
    /\ search_doc_ids = "explicit" =>
          \A i \in 1..Len(search_results) : search_results[i].document_id # NoDocumentId
    /\ doc_groups = <<>>
    /\ sources = <<>>
    /\ context = NoContext
    /\ attachment_context = FALSE
    /\ events = <<>>
    /\ llm_invoked = FALSE
    /\ messages = <<"user">>
    /\ history = <<"user", "assistant">>
    /\ mistral_api_key = TRUE
    /\ message = FollowUpMessage
    /\ request_document_ids =
          IF search_doc_ids = "explicit"
          THEN ExplicitDocumentIds
               \cup { search_results[i].document_id : i \in 1..Len(search_results) }
          ELSE NoDocumentIds
    /\ rewrite_invocations = 1
    /\ rewrite_calls = 1
    /\ primary_entity = NoEntity
    /\ search_args = [query |-> EntityQuery, top_k |-> pinecone_top_k(research_mode),
                      document_ids |-> request_document_ids]
    /\ has_attachments = FALSE
    /\ extract_calls = (IF search_doc_ids = "explicit" THEN 0 ELSE 1)
    /\ boost_in = IdleBoost
    /\ boost_out = NoBoostOut
    /\ call_in = IdleCall
    /\ call_out = NoCallOut

RankNext == ResumeWithResults

SpecRank == RankInit /\ [][RankNext]_vars

-----------------------------------------------------------------------------
(* _compute_entity_boost and the effective score on free inputs *)

MaxContentLen == 3   \* characters in a chunk content
MaxTerms == 3        \* query terms

BoostContents == SeqsUpTo({"a", "B"}, MaxContentLen)
BoostTerms == {<<"a">>, <<"b">>, <<"a", "b">>}
BoostTermLists == SeqsUpTo(BoostTerms, MaxTerms)
BoostScores == {-500, 3300}

BoostInit ==
    /\ pc = "start"
    /\ http_error = 0
    /\ provider_name = "unset"
    /\ providers = ProviderNames
    /\ instances = {}
    /\ use_kb = TRUE
    /\ title_updated = FALSE
    /\ research_mode = "quick"
    /\ search_query = <<>>
    /\ query_terms = <<>>
    /\ search_doc_ids = "none"
    /\ rag_task = "none"
    /\ search_issued = FALSE
    /\ rag_awaited = FALSE
    /\ search_results = <<>>
    /\ doc_groups = <<>>
    /\ sources = <<>>
    /\ context = NoContext
    /\ attachment_context = FALSE
    /\ events = <<>>
    /\ llm_invoked = FALSE
    /\ messages = <<>>
    /\ history = <<>>
    /\ mistral_api_key = FALSE
    /\ RequestUnread
    /\ call_in = IdleCall
    /\ call_out = NoCallOut
    /\ boost_in \in [content : BoostContents, query_terms : BoostTermLists,
                     score : BoostScores]
    /\ boost_out = NoBoostOut

\* lines 421-430 for one chunk: lower-case the content, boost, effective score
ApplyBoost ==
    /\ boost_out = NoBoostOut
    /\ boost_in # IdleBoost
    /\ boost_out' =
         LET b == compute_entity_boost(Lower(boost_in.content), boost_in.query_terms)
         IN  [entity_boost |-> b,
              effective_score |-> add_boost(boost_in.score, b)]
    /\ UNCHANGED boost_in
    /\ UNCHANGED turn_vars
    /\ UNCHANGED call_vars

BoostNext == ApplyBoost

SpecBoost == BoostInit /\ [][BoostNext]_vars

-----------------------------------------------------------------------------
(* _rewrite_search_query on free inputs *)

MaxContextLen == 3   \* messages in the context list

Roles == {"user", "assistant", "system"}

\* every helper-call specification leaves the turn where it starts
TurnIdle ==
    /\ pc = "start"
    /\ http_error = 0
    /\ provider_name = "unset"
    /\ providers = ProviderNames
    /\ instances = {}
    /\ use_kb = TRUE
    /\ title_updated = FALSE
    /\ research_mode = "quick"
    /\ search_query = <<>>
    /\ query_terms = <<>>
    /\ search_doc_ids = "none"
    /\ rag_task = "none"
    /\ search_issued = FALSE
    /\ rag_awaited = FALSE
    /\ search_results = <<>>
    /\ doc_groups = <<>>
    /\ sources = <<>>
    /\ context = NoContext
    /\ attachment_context = FALSE
    /\ events = <<>>
    /\ llm_invoked = FALSE
    /\ messages = <<>>
    /\ history = <<>>
    /\ mistral_api_key = FALSE
    /\ RequestUnread
    /\ boost_in = IdleBoost
    /\ boost_out = NoBoostOut

RewriteInit ==
    /\ TurnIdle
    /\ call_in \in [fn : {"rewrite"}, message : Messages,
                    context : SeqsUpTo(Roles, MaxContextLen),
                    key : BOOLEAN, outcome : RewriteAnswers]
    /\ call_out = NoCallOut

\* one call of _rewrite_search_query
ApplyRewrite ==
    /\ call_in.fn = "rewrite"
    /\ call_out = NoCallOut
    /\ call_out' =
         LET r == rewrite_search_query(call_in.message, call_in.context,
                                       call_in.key, call_in.outcome)
         IN  [fn |-> "rewrite", result |-> r.result, called |-> r.called]
    /\ UNCHANGED call_in
    /\ UNCHANGED turn_vars
    /\ UNCHANGED boost_vars

RewriteNext == ApplyRewrite

SpecRewrite == RewriteInit /\ [][RewriteNext]_vars

-----------------------------------------------------------------------------
(* _extract_person_names on free inputs *)

MaxTokens == 5       \* words in the query

\* words joined by ", ": any non-letter run separates tokens
RECURSIVE JoinWords(_)
JoinWords(words) ==
    IF words = <<>> THEN <<>>
    ELSE IF Len(words) = 1 THEN Head(words)
    ELSE Head(words) \o <<",", " ">> \o JoinWords(Tail(words))

NameQueries == { JoinWords(w) : w \in SeqsUpTo({<<"a">>, <<"B">>}, MaxTokens) }

\* "a b", "b a", "b b", "a b a", "b a b"
CandidateNames ==
    { <<"a", " ", "b">>, <<"b", " ", "a">>, <<"b", " ", "b">>,
      <<"a", " ", "b", " ", "a">>, <<"b", " ", "a", " ", "b">> }

NamesInit ==
    /\ TurnIdle
    /\ call_in \in [fn : {"names"}, query : NameQueries, names : SUBSET CandidateNames]
    /\ call_out = NoCallOut

\* one call of _extract_person_names
ApplyExtractNames ==
    /\ call_in.fn = "names"
    /\ call_out = NoCallOut
    /\ call_out' = [fn |-> "names",
                    windows |-> accepted_windows(call_in.query, call_in.names).windows,
                    found_names |-> extract_person_names(call_in.query, call_in.names)]
    /\ UNCHANGED call_in
    /\ UNCHANGED turn_vars
    /\ UNCHANGED boost_vars

NamesNext == ApplyExtractNames

SpecNames == NamesInit /\ [][NamesNext]_vars

-----------------------------------------------------------------------------
(* _sanitize_history_messages on free inputs *)

MaxMessages == 2     \* messages in the list

Fill(n) == [i \in 1..n |-> "x"]

\* "see [1]  and [[2]3]  now ": a marker followed by two spaces, nested brackets
MarkedContent ==
    <<"s", "e", "e", " ", "[", "1", "]", " ", " ", "a", "n", "d", " ",
      "[", "[", "2", "]", "3", "]", " ", " ", "n", "o", "w", " ">>
\* 400 characters with "[12]" inside and no space
LongUnbroken == Fill(200) \o <<"[", "1", "2", "]">> \o Fill(196)
\* a space at position 291 of more than 300 characters
LongLateSpace == Fill(290) \o <<" ">> \o Fill(60)
\* a space at position 101 of more than 300 characters
LongEarlySpace == Fill(100) \o <<" ">> \o Fill(250)
\* 303 characters that are 300 once the marker is removed
AtLimit == Fill(150) \o <<"[", "7", "]", " ">> \o Fill(149)

AssistantContents == {MarkedContent, LongUnbroken, LongLateSpace, LongEarlySpace, AtLimit}
OtherContents == {MarkedContent, LongLateSpace}

MessageTemplates ==
    { [id |-> 0, content |-> c, role |-> "assistant", timestamp |-> 0,
       provider |-> "openai"] : c \in AssistantContents }
    \cup { [id |-> 0, content |-> c, role |-> r, timestamp |-> 0,
            provider |-> NoProvider] : c \in OtherContents, r \in {"user", "system"} }

\* ids and timestamps follow the position in the list
Stored(msgs) == [i \in 1..Len(msgs) |-> [msgs[i] EXCEPT !.id = i, !.timestamp = 10 * i]]

MessageLists == { Stored(m) : m \in SeqsUpTo(MessageTemplates, MaxMessages) }

SanitizeInit ==
    /\ TurnIdle
    /\ call_in \in [fn : {"sanitize"}, messages : MessageLists]
    /\ call_out = NoCallOut

\* one call of _sanitize_history_messages
ApplySanitize ==
    /\ call_in.fn = "sanitize"
    /\ call_out = NoCallOut
    /\ call_out' = [fn |-> "sanitize",
                    sanitized |-> sanitize_history_messages(call_in.messages)]
    /\ UNCHANGED call_in
    /\ UNCHANGED turn_vars
    /\ UNCHANGED boost_vars

SanitizeNext == ApplySanitize

SpecSanitize == SanitizeInit /\ [][SanitizeNext]_vars

-----------------------------------------------------------------------------
(* classify_intent on free inputs *)

MaxPhrases == 2      \* phrases in a message

\* words joined by single spaces
RECURSIVE JoinPhrases(_)
JoinPhrases(phrases) ==
    IF phrases = <<>> THEN <<>>
    ELSE IF Len(phrases) = 1 THEN Chars(Head(phrases))
    ELSE Chars(Head(phrases)) \o <<" ">> \o JoinPhrases(Tail(phrases))

\* "gistx" matches nothing; "how should I teach" is lower-cased before the
\* search
IntentPhrases ==
    { "Summarize", "compare", "gistx", "who else", "in my file",
      "these 2 papers", "how should I teach" }

IntentMessages == { JoinPhrases(p) : p \in SeqsUpTo(IntentPhrases, MaxPhrases) }

IntentInit ==
    /\ TurnIdle
    /\ call_in \in [fn : {"classify"}, message : IntentMessages,
                    has_attachments : BOOLEAN]
    /\ call_out = NoCallOut

\* one call of classify_intent
ApplyClassify ==
    /\ call_in.fn = "classify"
    /\ call_out = NoCallOut
    /\ call_out' =
         LET r == classify_intent(call_in.message, call_in.has_attachments)
         IN  [fn |-> "classify", intent |-> r.intent, label |-> r.label,
              use_knowledge_base |-> r.use_knowledge_base]
    /\ UNCHANGED call_in
    /\ UNCHANGED turn_vars
    /\ UNCHANGED boost_vars

IntentNext == ApplyClassify

SpecIntent == IntentInit /\ [][IntentNext]_vars

-----------------------------------------------------------------------------
(* the rendering of one Source's content on free inputs *)

MaxChunkChars == 6   \* characters in the chunk of a single-chunk group

\* a bracket, a digit, a bracket and a blank
RenderChars == {"[", "7", "]", " "}
\* pieces of markers that meet when two chunks are joined
RenderPieces == {<<"[">>, <<"7", "]">>, <<"[", "7">>, <<"[", "7", "]", "x">>}

RenderChunkLists ==
    { <<c>> : c \in SeqsUpTo(RenderChars, MaxChunkChars) }
    \cup [1..2 -> RenderPieces]

RenderInit ==
    /\ TurnIdle
    /\ call_in \in [fn : {"render"}, chunks : RenderChunkLists]
    /\ call_out = NoCallOut

\* lines 477-481 for one group
ApplyRender ==
    /\ call_in.fn = "render"
    /\ call_out = NoCallOut
    /\ call_out' = [fn |-> "render",
                    content |-> combined_content_of([chunks |-> call_in.chunks])]
    /\ UNCHANGED call_in
    /\ UNCHANGED turn_vars
    /\ UNCHANGED boost_vars

RenderNext == ApplyRender

SpecRender == RenderInit /\ [][RenderNext]_vars

-----------------------------------------------------------------------------
(* Properties of the ranking and aggregation step *)

\* the search has returned and the handler has processed its results
Processed == rag_task = "done" /\ pc # "await_rag"

StatedDocId(r) == IF r.document_id = NoDocumentId THEN r.id ELSE r.document_id

\* per result: document, boost, effective score, threshold and whether it is
\* retained, as the properties state them
Stated ==
    [i \in 1..Len(search_results) |->
        LET r == search_results[i]
            b == compute_entity_boost(Lower(r.content), query_terms)
            e == r.score + b
            th == IF search_doc_ids # "none" THEN 0
                  ELSE IF b > 0 THEN 0
                  ELSE min_score_of(research_mode)
        IN  [doc |-> StatedDocId(r), boost |-> b, eff |-> e, threshold |-> th,
             meta |-> r.has_meta, retained |-> r.has_meta /\ e > th]]

DocIdsIn(T) == { T[i].doc : i \in DOMAIN T }

\* positions of the retained results of document d
RetainedPositions(T, d) == { i \in DOMAIN T : T[i].retained /\ T[i].doc = d }

GroupsOf(d) == { k \in 1..Len(doc_groups) : doc_groups[k].doc_id = d }

GroupChunks(d) ==
    IF GroupsOf(d) = {} THEN <<>> ELSE doc_groups[CHOOSE k \in GroupsOf(d) : TRUE].chunks

\* the chunks of d's group are the contents of d's retained results, in order
ChunksAreRetained(T, d) ==
    LET pos == RetainedPositions(T, d)
        chunks == GroupChunks(d)
    IN  /\ Len(chunks) = Cardinality(pos)
        /\ \A i \in pos :
              chunks[Cardinality({ j \in pos : j <= i })] = search_results[i].content

\* C1: the k-th Source carries citation number k, so the numbers are pairwise
\* distinct and are exactly 1..N
C1_CitationNumbersContiguous ==
    /\ \A k \in 1..Len(sources) : sources[k].citation_number = k
    /\ \A k, l \in 1..Len(sources) :
          k # l => sources[k].citation_number # sources[l].citation_number
    /\ { sources[k].citation_number : k \in 1..Len(sources) } = 1..Len(sources)

\* C1 witness: several documents were retained and cut down to top_k Sources
C1_Witness ==
    /\ Processed
    /\ Len(sources) = top_k_of(research_mode)
    /\ Len(doc_groups) > Len(sources)

C7_PreFilteredKeepsAll ==
    (Processed /\ search_doc_ids # "none") =>
        LET T == Stated
        IN  \A d \in DocIdsIn(T) :
               Len(GroupChunks(d)) =
                   Cardinality({ i \in DOMAIN T : T[i].meta /\ T[i].doc = d })

\* C9: one group per document id, no two Sources with the same id; best_score
\* is the maximum effective score of the document's retained chunks, and
\* best_chunk_id / best_preview come from a chunk that attains it
C9_GroupsKeepBestChunk ==
    Processed =>
        LET T == Stated
        IN  /\ \A k, l \in 1..Len(doc_groups) :
                  k # l => doc_groups[k].doc_id # doc_groups[l].doc_id
            /\ \A k, l \in 1..Len(sources) : k # l => sources[k].id # sources[l].id
            /\ \A k \in 1..Len(doc_groups) :
                  LET g == doc_groups[k]
                      pos == RetainedPositions(T, g.doc_id)
                  IN  /\ pos # {}
                      /\ \A i \in pos : T[i].eff <= g.best_score
                      /\ \E i \in pos :
                            /\ T[i].eff = g.best_score
                            /\ search_results[i].id = g.best_chunk_id
                            /\ preview_of(search_results[i].content) = g.best_preview

\* C9 witness: a later chunk of a document replaced the first one as its best
C9_Witness ==
    /\ Processed
    /\ LET T == Stated
       IN  \E k \in 1..Len(doc_groups) :
              LET g == doc_groups[k]
                  pos == RetainedPositions(T, g.doc_id)
              IN  \E i, j \in pos :
                     /\ i < j
                     /\ search_results[j].id = g.best_chunk_id
                     /\ T[i].eff < g.best_score

BestScoreOfDoc(d) == doc_groups[CHOOSE k \in GroupsOf(d) : TRUE].best_score

SourceIds == { sources[k].id : k \in 1..Len(sources) }

MinOf(a, b) == IF a < b THEN a ELSE b

\* raw score of the chunk with the given id
RawScoreOfChunk(id) ==
    search_results[CHOOSE i \in 1..Len(search_results) : search_results[i].id = id].score

\* C10: Sources are in non-increasing order of best score, there are
\* min(top_k, number of groups) of them, and no group left out scores strictly
\* higher than an included one
C10_SourcesOrderedAndCapped ==
    Processed =>
        /\ Len(sources) = MinOf(top_k_of(research_mode), Len(doc_groups))
        /\ \A k \in 1..Len(sources) : GroupsOf(sources[k].id) # {}
        /\ \A k \in 1..(Len(sources) - 1) :
              /\ BestScoreOfDoc(sources[k].id) >= BestScoreOfDoc(sources[k + 1].id)
              /\ sources[k].score >= sources[k + 1].score
        /\ \A g \in 1..Len(doc_groups) :
              doc_groups[g].doc_id \notin SourceIds =>
                  \A k \in 1..Len(sources) :
                      doc_groups[g].best_score <= BestScoreOfDoc(sources[k].id)

\* C10 witness: groups were cut off by top_k, and a Source whose best chunk has
\* the lower raw score is cited before one with a higher raw score
C10_Witness ==
    /\ Processed
    /\ Len(doc_groups) > top_k_of(research_mode)
    /\ \E k, l \in 1..Len(sources) :
          /\ k < l
          /\ RawScoreOfChunk(sources[k].chunk_id) < RawScoreOfChunk(sources[l].chunk_id)
          /\ BestScoreOfDoc(sources[k].id) > BestScoreOfDoc(sources[l].id)

-----------------------------------------------------------------------------
(* Properties of the whole turn *)

EventTypes == { events[i].type : i \in 1..Len(events) }

AssistantPersisted == \E i \in 1..Len(messages) : messages[i] = "assistant"

\* C2: when the index search raises, the response is exactly the one error
\* event: the completion model is never invoked, no sources, intent or chunk
\* event is emitted and no assistant message is stored
C2_SearchErrorShortCircuits ==
    rag_task = "failed" =>
        /\ ~llm_invoked
        /\ ~AssistantPersisted
        /\ sources = <<>>
        /\ EventTypes \cap {"sources", "intent", "chunk", "done"} = {}
        /\ Len(events) <= 1
        /\ pc = "finished" => events = <<KbUnavailable>>
        /\ pc \in {"await_rag", "error_stream", "finished"}

\* C2 witness: the search failed and the turn ended with its single error event
C2_Witness ==
    /\ rag_task = "failed"
    /\ pc = "finished"
    /\ events = <<KbUnavailable>>
    /\ messages = <<"user">>

C4_SearchProceedsDuringAcquisition ==
    (pc = "get_provider" /\ rag_task = "scheduled") => ENABLED TaskStart

\* C5: an await that ends in cancellation raises nothing and emits no
\* retrieval error: the turn goes on to the generator with no Sources and no
\* knowledge-base context; a failed search never gets there, it ends in the
\* error event without a completion
C5_CancellationIsNotAnError ==
    /\ (rag_task = "cancelled" /\ rag_awaited) =>
          /\ http_error = 0
          /\ \A i \in 1..Len(events) : events[i] # KbUnavailable
          /\ sources = <<>>
          /\ context.kb = "none"
          /\ pc \in {"gen_title", "gen_sources", "gen_intent", "gen_stream",
                     "gen_suggest", "gen_done", "persist", "finished"}
          /\ pc = "finished" => AssistantPersisted
    /\ (rag_task = "failed" /\ pc # "await_rag") =>
          /\ pc \in {"error_stream", "finished"}
          /\ ~llm_invoked
          /\ pc = "finished" => \E i \in 1..Len(events) : events[i] = KbUnavailable

\* C5 witness: the await was cancelled and the turn still ran the completion
\* and stored the answer
C5_Witness ==
    /\ rag_task = "cancelled"
    /\ rag_awaited
    /\ llm_invoked
    /\ pc = "finished"
    /\ "done" \in EventTypes

-----------------------------------------------------------------------------
(* Properties of the entity boost *)

\* number of positions of the term list whose term occurs in the lower-cased content
MatchedTerms(content, terms) ==
    Cardinality({ i \in 1..Len(terms) : IsSubstring(terms[i], Lower(content)) })

\* C8: the boost is 0 for an empty term list or no occurrence, 0.30 when all
\* terms occur, 0.15 when at least half but not all occur, 0.05 when fewer
\* than half occur; the effective score is the raw score plus the boost
C8_BoostTiers ==
    boost_out # NoBoostOut =>
        LET total == Len(boost_in.query_terms)
            n == MatchedTerms(boost_in.content, boost_in.query_terms)
            b == boost_out.entity_boost
        IN  /\ b \in {0, 500, 1500, 3000}
            /\ (total = 0 \/ n = 0) => b = 0
            /\ (total > 0 /\ n = total) => b = 3000
            /\ (n > 0 /\ n < total /\ 2 * n >= total) => b = 1500
            /\ (n > 0 /\ 2 * n < total) => b = 500
            /\ boost_out.effective_score = boost_in.score + b

\* C8 witness: exactly half of the terms occur, through a content that
\* matches only once lower-cased
C8_Witness ==
    /\ boost_out # NoBoostOut
    /\ boost_out.entity_boost = 1500
    /\ Len(boost_in.query_terms) = 2 * MatchedTerms(boost_in.content, boost_in.query_terms)
    /\ \E i \in 1..Len(boost_in.query_terms) :
          /\ IsSubstring(boost_in.query_terms[i], Lower(boost_in.content))
          /\ ~IsSubstring(boost_in.query_terms[i], boost_in.content)

-----------------------------------------------------------------------------
(* Properties of the context block *)

\* no result of the search is retained by the stated rule
NothingRetained == \A i \in 1..Len(search_results) : ~Stated[i].retained

\* C11: the context block built by aggregation is the fixed advisory block
\* exactly when the search succeeded and retained nothing (an empty result
\* list included); the Source list is then empty, and attachment text does
\* not change the block.  The retained results are compared where
\* aggregation hands its output over (pc = "gen_title").
C11_AdvisoryIffNothingRetained ==
    /\ context.kb = "advisory" =>
          /\ Processed
          /\ doc_groups = <<>>
          /\ sources = <<>>
          /\ context.parts = <<>>
    /\ (Processed /\ doc_groups = <<>>) => context.kb = "advisory"
    /\ (Processed /\ pc = "gen_title") =>
          /\ NothingRetained <=> context.kb = "advisory"
          /\ ~NothingRetained => (context.kb = "sources" /\ sources # <<>>)

\* C11 witness: the index returned a chunk with metadata that stayed below
\* the floor; the advisory block was built and attachment text prepended
C11_Witness ==
    /\ Processed
    /\ \E i \in 1..Len(search_results) : search_results[i].has_meta
    /\ context.kb = "advisory"
    /\ context.attachment
    /\ sources = <<>>

-----------------------------------------------------------------------------
(* Properties of query rewriting *)

HasUser(roles) == \E i \in 1..Len(roles) : roles[i] = "user"

\* C12 (as stated): on the first turn of a conversation the raw message is the
\* search query and the rewrite model is not called
C12_FirstTurnPassesThrough ==
    (~HasUser(history) /\ rewrite_invocations > 0) =>
        (rewrite_calls = 0 /\ search_query = message)

\* C13: a context list without a user message makes _rewrite_search_query
\* return the current message unchanged, without a call of the rewrite model
C13_NoPriorUserNoRewrite ==
    (call_out.fn = "rewrite" /\ ~HasUser(call_in.context)) =>
        (call_out.result = call_in.message /\ ~call_out.called)

\* C13 witness: only assistant messages in the context, key configured and a
\* usable answer on offer; the message came back unchanged
C13_Witness ==
    /\ call_out.fn = "rewrite"
    /\ call_in.context # <<>>
    /\ ~HasUser(call_in.context)
    /\ call_in.key
    /\ call_in.outcome = Answers(QuotedAnswer)
    /\ call_in.message = FollowUpMessage
    /\ call_out.result = FollowUpMessage

\* C14: whatever the rewrite model does, _rewrite_search_query returns: the
\* current message when the model raises, answers nothing usable or no key is
\* configured, and the model's text (without surrounding blanks and double
\* quotes) only when that text is not empty
C14_RewriteAlwaysReturns ==
    /\ (call_in.fn = "rewrite" /\ call_out = NoCallOut) => ENABLED ApplyRewrite
    /\ call_out.fn = "rewrite" =>
          LET text == call_in.outcome.text
              usable == call_in.outcome.kind = "text" /\ rewritten_of(text) # <<>>
              asked == HasUser(call_in.context) /\ call_in.key
          IN  /\ (call_in.outcome.kind = "raises" \/ text = <<>> \/ ~call_in.key)
                    => call_out.result = call_in.message
              /\ (asked /\ usable) => call_out.result = rewritten_of(text)
              /\ ~(asked /\ usable) => call_out.result = call_in.message
              /\ call_out.result # <<>>
              /\ call_out.called <=> asked

\* C14 witness: the model answered with quotes and blanks only; the current
\* message was returned
C14_Witness ==
    /\ call_out.fn = "rewrite"
    /\ call_out.called
    /\ call_in.outcome = Answers(BlankAnswer)
    /\ call_out.result = call_in.message

\* C15: the index search is set up only after the one call of the rewrite
\* has returned, and it searches exactly the value the rewrite returned
C15_SearchAfterRewrite ==
    /\ rewrite_invocations <= 1
    /\ (rag_task # "none" \/ search_issued \/ search_args # NoSearchArgs) =>
          /\ rewrite_invocations = 1
          /\ search_args.query = search_query
          /\ pc \notin {"start", "rewrite", "kb_setup"}
    /\ pc \in {"start", "rewrite"} => (rewrite_invocations = 0 /\ search_query = <<>>)

\* C15 witness: the rewrite model changed the query and the index was asked
\* for the rewritten one
C15_Witness ==
    /\ search_issued
    /\ rewrite_calls = 1
    /\ search_query # message
    /\ search_args.query = EntityQuery

-----------------------------------------------------------------------------
(* Properties of entity extraction and the entity filter *)

WindowPositions(w) == w.start..(w.start + w.size - 1)

\* C16: the windows accepted by _extract_person_names use pairwise disjoint
\* token positions, and no 2-word window touches a 3-word window
C16_WindowsDisjoint ==
    call_out.fn = "names" =>
        LET ws == call_out.windows
        IN  /\ \A k, l \in 1..Len(ws) :
                  k # l => WindowPositions(ws[k]) \cap WindowPositions(ws[l]) = {}
            /\ \A k, l \in 1..Len(ws) :
                  (ws[k].size = 2 /\ ws[l].size = 3) =>
                      \A q \in WindowPositions(ws[l]) : q \notin WindowPositions(ws[k])
            /\ \A k \in 1..Len(ws) :
                  /\ ws[k].size \in {2, 3}
                  /\ ngram_of(tokens_of(call_in.query), ws[k].start, ws[k].size)
                        \in call_in.names

\* C16 witness: a 3-word window was accepted, a known 2-word name inside it
\* was passed over, and a 2-word window was accepted elsewhere
C16_Witness ==
    /\ call_out.fn = "names"
    /\ LET ws == call_out.windows
           tokens == tokens_of(call_in.query)
       IN  /\ \E k, l \in 1..Len(ws) : ws[k].size = 3 /\ ws[l].size = 2
           /\ \E k \in 1..Len(ws) :
                 /\ ws[k].size = 3
                 /\ ngram_of(tokens, ws[k].start, 2) \in call_in.names

\* start indexes of the 3-word windows of a list of accepted windows
TripleStarts(ws) == { ws[k].start : k \in { l \in 1..Len(ws) : ws[l].size = 3 } }

DetectedNames == extract_person_names(message, instructor_index)

EntityFilterApplies ==
    /\ pc = "get_provider"
    /\ rag_task # "none"
    /\ request_document_ids = NoDocumentIds

\* C17 (as stated): the search is filtered to the document set of every known
\* entity of the message that has a document
C17_FilterIsEntityDocuments ==
    EntityFilterApplies =>
        \A name \in DetectedNames :
            get_documents_by_instructor(name) # {} =>
                search_args.document_ids = get_documents_by_instructor(name)

\* C17 (amended): the search is filtered to the document set of one of the
\* detected entities, the one taken as primary; with a single detected
\* entity, to the documents of that entity
C17_FilterIsPrimaryEntityDocuments ==
    EntityFilterApplies =>
        LET names == DetectedNames
        IN  /\ names # {} =>
                  /\ primary_entity \in names
                  /\ search_args.document_ids = get_documents_by_instructor(primary_entity)
                  /\ search_args.document_ids # NoDocumentIds
                  /\ search_doc_ids = "entity"
            /\ names = {} => search_args.document_ids = NoDocumentIds

\* C17 witness: "Bruce Usher ESG?" restricts the search to the documents
\* indexed under bruce usher
C17_Witness ==
    /\ EntityFilterApplies
    /\ message = EntityQuery
    /\ primary_entity = BruceUsher
    /\ search_args.document_ids = {1}

-----------------------------------------------------------------------------
(* Properties of the history sanitizer *)

EndsWith(s, suffix) ==
    /\ Len(s) >= Len(suffix)
    /\ SubSeq(s, Len(s) - Len(suffix) + 1, Len(s)) = suffix

\* C18 (as stated): sanitizing the sanitized list again changes nothing
C18_SanitizeIdempotent ==
    call_out.fn = "sanitize" =>
        sanitize_history_messages(call_out.sanitized) = call_out.sanitized

\* C19 (as stated): an assistant message whose cleaned text is longer than 300
\* characters comes out at most 300 characters long and ends with the
\* truncation marker; a shorter one is not truncated
C19_TruncatedWithinLimit ==
    call_out.fn = "sanitize" =>
        \A i \in 1..Len(call_in.messages) :
            call_in.messages[i].role = "assistant" =>
                LET cleaned == cleaned_content(call_in.messages[i].content)
                    out == call_out.sanitized[i].content
                IN  /\ Len(cleaned) > 300 =>
                          (Len(out) <= 300 /\ EndsWith(out, TruncationMarker))
                    /\ Len(cleaned) <= 300 => out = cleaned

\* C20: the sanitized list has the length and order of the input; messages
\* of other roles are returned unchanged and assistant messages keep id, role
\* and timestamp
C20_SanitizeKeepsListAndIdentity ==
    call_out.fn = "sanitize" =>
        /\ Len(call_out.sanitized) = Len(call_in.messages)
        /\ \A i \in 1..Len(call_in.messages) :
              LET old == call_in.messages[i]
                  new == call_out.sanitized[i]
              IN  /\ old.role # "assistant" => new = old
                  /\ new.id = old.id
                  /\ new.role = old.role
                  /\ new.timestamp = old.timestamp

\* C20 witness: a user message with markers next to an assistant message
\* whose content was cut
C20_Witness ==
    /\ call_out.fn = "sanitize"
    /\ Len(call_in.messages) = 2
    /\ call_in.messages[1].role = "user"
    /\ call_in.messages[1].content = MarkedContent
    /\ call_in.messages[2].role = "assistant"
    /\ call_out.sanitized[2].content # call_in.messages[2].content
    /\ EndsWith(call_out.sanitized[2].content, TruncationMarker)

-----------------------------------------------------------------------------
(* Properties of the intent classifier *)

\* positions of the definitions with a pattern found in the lower-cased message
MatchingDefinitions(msg) ==
    { i \in 1..Len(INTENT_DEFINITIONS) :
        \E j \in 1..Len(INTENT_DEFINITIONS[i].patterns) :
            re_search(INTENT_DEFINITIONS[i].patterns[j], strip(Lower(msg))) }

KbPatternMatches(msg) ==
    \E j \in 1..Len(KNOWLEDGE_BASE_PATTERNS) :
        re_search(KNOWLEDGE_BASE_PATTERNS[j], strip(Lower(msg)))

AttachmentPatternMatches(msg) ==
    \E j \in 1..Len(ATTACHMENT_ONLY_PATTERNS) :
        re_search(ATTACHMENT_ONLY_PATTERNS[j], strip(Lower(msg)))

\* C22: use_knowledge_base is false iff there are attachments, no
\* knowledge-base pattern matches and an attachment-only pattern matches; it
\* is true without attachments and when patterns of both lists match
C22_KnowledgeBaseRouting ==
    call_out.fn = "classify" =>
        /\ ~call_out.use_knowledge_base <=>
              /\ call_in.has_attachments
              /\ ~KbPatternMatches(call_in.message)
              /\ AttachmentPatternMatches(call_in.message)
        /\ ~call_in.has_attachments => call_out.use_knowledge_base
        /\ (KbPatternMatches(call_in.message) /\ AttachmentPatternMatches(call_in.message))
              => call_out.use_knowledge_base

\* C22 witness: with attachments, "in my file who else" matches both lists
\* and the knowledge base is searched
C22_Witness ==
    /\ call_out.fn = "classify"
    /\ call_in.has_attachments
    /\ call_in.message = Chars("in my file who else")
    /\ KbPatternMatches(call_in.message)
    /\ AttachmentPatternMatches(call_in.message)
    /\ call_out.use_knowledge_base

-----------------------------------------------------------------------------
(* Properties of the search set-up *)

MaxOf(a, b) == IF a > b THEN a ELSE b

\* C23: a search asks the index for max(3 * top_k, 20) candidates, top_k being
\* that of the turn's research mode: 21, 36 or 48, never fewer than top_k
C23_OverFetch ==
    /\ search_issued => search_args # NoSearchArgs
    /\ search_args # NoSearchArgs =>
          /\ search_args.top_k = MaxOf(3 * top_k_of(research_mode), 20)
          /\ search_args.top_k >= top_k_of(research_mode)
          /\ research_mode = "quick" => search_args.top_k = 21
          /\ research_mode = "enhanced" => search_args.top_k = 36
          /\ research_mode = "deep" => search_args.top_k = 48

\* C23 witness: a deep-mode search was issued for 48 candidates
C23_Witness ==
    /\ search_issued
    /\ research_mode = "deep"
    /\ search_args.top_k = 48

\* the search was issued with a document filter
FilterIssued == search_args.document_ids # NoDocumentIds

\* per result: whether it is retained when the threshold is 0 exactly for a
\* search issued with a filter
RegimeStated ==
    [i \in 1..Len(search_results) |->
        LET r == search_results[i]
            b == compute_entity_boost(Lower(r.content), query_terms)
            th == IF FilterIssued THEN 0
                  ELSE IF b > 0 THEN 0
                  ELSE min_score_of(research_mode)
        IN  [doc |-> StatedDocId(r), retained |-> r.has_meta /\ r.score + b > th]]

C27_NoSearchWithoutKnowledgeBase ==
    ~use_kb =>
        /\ has_attachments
        /\ rag_task = "none"
        /\ ~search_issued
        /\ ~rag_awaited
        /\ search_args = NoSearchArgs
        /\ extract_calls = 0
        /\ primary_entity = NoEntity
        /\ search_results = <<>>
        /\ doc_groups = <<>>
        /\ sources = <<>>
        /\ "sources" \notin EventTypes
        /\ context.kb = "none"
        /\ context.parts = <<>>
        /\ llm_invoked => context.attachment = attachment_context

\* C27 witness: a question about an attachment that names an instructor was
\* answered from the attachment text and the turn completed
C27_Witness ==
    /\ ~use_kb
    /\ message = AttachmentQuery
    /\ extract_person_names(message, instructor_index) # {}
    /\ context.attachment
    /\ llm_invoked
    /\ pc = "finished"
    /\ "done" \in EventTypes

\* the filters the set-up can issue for the request at hand: one per order in
\* which list(found_names) may enumerate the detected names
PossibleFilters ==
    IF request_document_ids # NoDocumentIds THEN {request_document_ids}
    ELSE IF DetectedNames = {} THEN {NoDocumentIds}
    ELSE { get_documents_by_instructor(n) : n \in DetectedNames }

\* C30 (as stated): message, entity index and entity-to-documents mapping
\* determine the document filter of the search: the filter issued is the only
\* one the set-up can issue
C30_FilterUniquelyDetermined ==
    (pc = "get_provider" /\ rag_task # "none") =>
        PossibleFilters = {search_args.document_ids}

-----------------------------------------------------------------------------
(* Properties of the response generator *)

GenPositions == {"gen_title", "gen_sources", "gen_intent", "gen_stream",
                 "gen_suggest", "gen_done", "persist"}

\* generate() was entered
InGenerate == pc \in GenPositions \/ (pc = "finished" /\ rag_task # "failed")

\* place of an event type in the order of the response
EventRank(type) ==
    CASE type = "discussion_title" -> 1
      [] type = "sources" -> 2
      [] type = "intent" -> 3
      [] type = "chunk" -> 4
      [] type = "error" -> 5
      [] type = "suggested_questions" -> 6
      [] type = "done" -> 7

Emitted(type) == \E i \in 1..Len(events) : events[i].type = type

\* C28: the events of generate() come in the strict order title-update,
\* sources, intent, chunks, error, suggested-questions, done, so that each
\* occurs at most once except chunks; title-update iff the title was set, sources iff there are Sources,
\* always one intent, the error is the completion stream's and ends the
\* chunks, done is the last event and the assistant message is stored after it
C28_EventOrder ==
    InGenerate =>
        /\ \A i \in 1..Len(events) :
              events[i].type \in {"discussion_title", "sources", "intent", "chunk",
                                  "error", "suggested_questions", "done"}
        /\ \A i \in 1..(Len(events) - 1) :
              \/ EventRank(events[i].type) < EventRank(events[i + 1].type)
              \/ (events[i].type = "chunk" /\ events[i + 1].type = "chunk")
        /\ pc # "gen_title" => (Emitted("discussion_title") <=> title_updated)
        /\ pc \notin {"gen_title", "gen_sources"} =>
              (Emitted("sources") <=> sources # <<>>)
        /\ pc \notin {"gen_title", "gen_sources", "gen_intent"} => Emitted("intent")
        /\ \A i \in 1..Len(events) :
              events[i].type = "error" =>
                  /\ events[i] = Event("error", "stream exception")
                  /\ llm_invoked
                  /\ pc \notin {"gen_title", "gen_sources", "gen_intent", "gen_stream"}
        /\ Emitted("done") <=> pc \in {"persist", "finished"}
        /\ pc \in {"persist", "finished"} => events[Len(events)].type = "done"
        /\ AssistantPersisted <=> pc = "finished"

\* C28 witness: a turn emitted every kind of event, a chunk before the
\* stream raised, and stored the assistant message
C28_Witness ==
    /\ pc = "finished"
    /\ AssistantPersisted
    /\ [i \in 1..Len(events) |-> events[i].type] =
          <<"discussion_title", "sources", "intent", "chunk", "error",
            "suggested_questions", "done">>

-----------------------------------------------------------------------------
(* Agreement of the context block and the Sources *)

\* the contents of the results at the given positions, in the order of the
\* result list
ContentsAt(pos) ==
    [n \in 1..Cardinality(pos) |->
        search_results[CHOOSE i \in pos : Cardinality({ j \in pos : j <= i }) = n].content]

\* C29: the context block has one segment per Source, in the same order; the
\* segment numbered N carries the filename of the Source numbered N and its
\* content is made of exactly the retained chunks of that Source's document,
\* in the order of the result list; nothing else is in the block
C29_ContextAgreesWithSources ==
    Processed =>
        LET T == Stated
        IN  /\ Len(context.parts) = Len(sources)
            /\ (context.kb = "sources") = (sources # <<>>)
            /\ \A k \in 1..Len(sources) :
                  LET part == context.parts[k]
                      pos == RetainedPositions(T, sources[k].id)
                  IN  /\ part.citation_number = k
                      /\ sources[k].citation_number = k
                      /\ part.filename = sources[k].filename
                      /\ pos # {}
                      /\ part.content =
                            strip(collapse_spaces(citation_re_sub(
                                join_chunks(ContentsAt(pos)))))

\* C29 witness: a Source's segment is made of two chunks and a document
\* with a retained chunk was cut off by top_k
C29_Witness ==
    /\ Processed
    /\ Len(doc_groups) > Len(sources)
    /\ LET T == Stated
       IN  \E k \in 1..Len(sources) :
              Cardinality(RetainedPositions(T, sources[k].id)) >= 2

-----------------------------------------------------------------------------
(* Properties of the rendered context *)

\* s holds an opening bracket, one or more digits and a closing bracket
HasBracketedNumber(s) ==
    \E i, j \in 1..Len(s) :
        /\ j > i + 1
        /\ s[i] = "[" /\ s[j] = "]"
        /\ \A m \in (i + 1)..(j - 1) : s[m] \in Digits

\* C25 (as stated): whatever the chunk contents, the content rendered under
\* a Source header holds no bracketed number
C25_NoBracketedNumber ==
    call_out.fn = "render" => ~HasBracketedNumber(call_out.content)

====
